---- MODULE Spec2Model ----
(***************************************************************************)
(* git-repo-brief: the request/response normalisation layer.              *)
(*                                                                         *)
(* The module models the rate-limited outbound fetch (tools/overview.ts), *)
(* the repository-URL parser, the envelope constructors (types.ts), the   *)
(* four tools (overview.ts, files.ts, releases.ts, activity.ts) and the   *)
(* two tool-call handlers (the MCP CallTool handler of createServer and   *)
(* the JSON-RPC handler handleJsonRpcRequest).                            *)
(*                                                                         *)
(* The specifications share the definitions and the variables:            *)
(*   Spec      one tool call or handler call at a time, each taken as one *)
(*             step from its start to the envelope it resolves to;        *)
(*   SpecRL    overlapping calls of rateLimitedFetch, one step per        *)
(*             suspension point (throttle timer, response, abort timer);  *)
(*   SpecRLFair  SpecRL with the fairness the event loop gives timers;    *)
(*   SpecHttp  the session map of the HTTP transport (transport/http.ts), *)
(*             one step per suspension point of the request handler.      *)
(*                                                                         *)
(* Time is in model milliseconds.  JavaScript values that may be null or  *)
(* undefined are tagged records, so that every comparison is well typed.  *)
(***************************************************************************)
EXTENDS Integers, Sequences, FiniteSets, TLC

(***************************************************************************)
(* Configuration (config.ts) and the bounds of the model.                 *)
(***************************************************************************)
\* config.requestDelayMs, as configured through REQUEST_DELAY_MS.
RequestDelayMs == 2
\* config.requestTimeoutMs, as configured through REQUEST_TIMEOUT_MS.
RequestTimeoutMs == 3
\* A call starts at most MaxStartDelay after the process has started.
MaxStartDelay == 1
\* The calls that run at the same time in SpecRL.
NumCalls == 3
\* The HTTP requests that are under way at the same time in SpecHttp.
NumRequests == 2
\* The sessions that are created in one behaviour of SpecHttp.
MaxSessions == 2
\* Date.now() when the process starts: far more than requestDelayMs after
\* the zero that lastRequestTime is initialised to.
StartTime == RequestDelayMs
\* The clock stops once a call started last, throttled and timed out, is over.
LastStart == StartTime + MaxStartDelay
MaxTime == LastStart + RequestDelayMs + RequestTimeoutMs

(***************************************************************************)
(* JavaScript values.                                                      *)
(***************************************************************************)
Null == [t |-> "null"]
Undefined == [t |-> "undefined"]
\* An opaque string, and a string the code takes apart (its characters).
S(s) == [t |-> "str", v |-> s]
Cs(q) == [t |-> "chars", v |-> q]
N(n) == [t |-> "num", v |-> n]
Obj(r) == [t |-> "obj", v |-> r]
Arr(q) == [t |-> "arr", v |-> q]
\* What response.json() cannot decode.
Malformed == [t |-> "malformed"]

Nullish(x) == x = Null \/ x = Undefined
\* x ?? d
Coalesce(x, d) == IF Nullish(x) THEN d ELSE x
\* JavaScript truthiness of a header value or a field.
Truthy(x) ==
  /\ ~Nullish(x)
  /\ (x.t = "str" => x.v # "")
  /\ (x.t = "chars" => x.v # <<>>)
  /\ (x.t = "num" => x.v # 0)
\* obj.f for an object value: undefined when the field is missing.
Get(obj, f) == IF f \in DOMAIN obj.v THEN obj.v[f] ELSE Undefined
\* Whether reading a property of x throws a TypeError.
NoProps(x) == Nullish(x)

\* Thrown values.  isError is `instanceof Error`.
Err(name, message) == [isError |-> TRUE, name |-> name, message |-> message]
AbortError == Err("AbortError", "This operation was aborted")
NetworkError == Err("TypeError", "fetch failed")
SyntaxError == Err("SyntaxError", "Unexpected token < in JSON")
PropTypeError == Err("TypeError", "Cannot read properties of undefined")
RangeError == Err("RangeError", "Invalid time value")
\* A thrown value that is not an Error instance (a rejected string).
NonError == [isError |-> FALSE, name |-> "", message |-> ""]

\* The completion of a block of code: a returned value or a thrown one.
Return(v) == [kind |-> "return", value |-> v]
Throw(e) == [kind |-> "throw", error |-> e]

(***************************************************************************)
(* types.ts: the envelope constructors.                                    *)
(***************************************************************************)
ErrorCode ==
  {"INVALID_INPUT", "UPSTREAM_ERROR", "RATE_LIMITED", "TIMEOUT", "PARSE_ERROR",
   "INTERNAL_ERROR"}

Opt(options, f) == IF f \in DOMAIN options THEN options[f] ELSE Undefined

\* Both constructors also stamp meta.retrieved_at with the wall clock at the
\* moment of construction; no branch of the program reads it back, and the
\* envelopes here leave it out.

createSuccessResponse(data, options) ==
  [ok |-> TRUE,
   data |-> data,
   meta |-> [source |-> IF "source" \in DOMAIN options THEN S(options.source)
                        ELSE Undefined,
             pagination |-> [next_cursor |-> Coalesce(Opt(options, "next_cursor"), Null)],
             warnings |-> IF "warnings" \in DOMAIN options THEN options.warnings
                          ELSE <<>>]]

\* The default of the details parameter.
NoDetails == [x \in {} |-> Null]

\* createErrorResponse as it would be without the default of its third
\* parameter.
createErrorResponseNoDefault(code, message, details) ==
  [ok |-> FALSE,
   error |-> [code |-> code, message |-> message, details |-> details]]

\* A caller that gives no third argument passes Undefined.
createErrorResponse(code, message, details) ==
  [ok |-> FALSE,
   error |-> [code |-> code, message |-> message,
              details |-> IF details = Undefined THEN NoDetails ELSE details]]

(***************************************************************************)
(* Strings that the code takes apart are sequences of characters or of    *)
(* tokens; parseInt and Date are computed on them.                         *)
(***************************************************************************)
Digits == <<"0", "1", "2", "3", "4", "5", "6", "7", "8", "9">>
IsDigit(c) == \E i \in 1..Len(Digits) : Digits[i] = c
DigitVal(c) == (CHOOSE i \in 1..Len(Digits) : Digits[i] = c) - 1

RECURSIVE DigitPrefix(_)
\* The longest prefix of decimal digits.
DigitPrefix(cs) ==
  IF cs = <<>> \/ ~IsDigit(Head(cs)) THEN <<>>
  ELSE <<Head(cs)>> \o DigitPrefix(Tail(cs))

RECURSIVE DecimalValue(_)
DecimalValue(ds) ==
  IF ds = <<>> THEN 0
  ELSE 10 * DecimalValue(SubSeq(ds, 1, Len(ds) - 1)) + DigitVal(ds[Len(ds)])

\* `${n}` for the numbers the model interpolates: HTTP status codes and
\* page sizes.
NumStr(n) ==
  CASE n = 200 -> "200"
    [] n = 201 -> "201"
    [] n = 304 -> "304"
    [] n = 403 -> "403"
    [] n = 404 -> "404"
    [] n = 429 -> "429"
    [] n = 500 -> "500"
    [] n = 1 -> "1"
    [] n = 5 -> "5"
    [] n = 100 -> "100"
    [] OTHER -> "?"

RECURSIVE Join(_)
\* The string whose tokens are ts.
Join(ts) == IF ts = <<>> THEN "" ELSE Head(ts) \o Join(Tail(ts))

NaN == [nan |-> TRUE]
\* parseInt(text): the leading digits, NaN when there are none.
ParseInt(cs) ==
  IF DigitPrefix(cs) = <<>> THEN NaN
  ELSE [nan |-> FALSE, v |-> DecimalValue(DigitPrefix(cs))]
\* x * 1000
Times1000(x) == IF x.nan THEN NaN ELSE [nan |-> FALSE, v |-> x.v * 1000]
\* new Date(ms).toISOString(): throws RangeError on an invalid date.
ToISOString(ms) ==
  IF ms.nan THEN Throw(RangeError) ELSE Return([t |-> "iso", ms |-> ms.v])

(***************************************************************************)
(* The upstream: what one outbound call meets.                             *)
(***************************************************************************)
HRemaining == "x-ratelimit-remaining"
HReset == "x-ratelimit-reset"
HLink == "link"
\* The headers of a response; an absent header is Null, as headers.get gives.
Headers(remaining, reset, link) ==
  (HRemaining :> remaining) @@ (HReset :> reset) @@ (HLink :> link)
HeadersGet(response, name) ==
  IF name \in DOMAIN response.headers THEN response.headers[name] ELSE Null
\* The reason phrase the upstream sends with a status.
StatusText(status) ==
  CASE status = 200 -> "OK"
    [] status = 201 -> "Created"
    [] status = 304 -> "Not Modified"
    [] status = 403 -> "Forbidden"
    [] status = 404 -> "Not Found"
    [] status = 429 -> "Too Many Requests"
    [] status = 500 -> "Internal Server Error"
    [] OTHER -> ""
Response(status, headers, body) ==
  [status |-> status, statusText |-> StatusText(status), headers |-> headers,
   body |-> body]
\* response.ok
ResponseOk(response) == response.status >= 200 /\ response.status <= 299
\* response.json(): throws on a body that is not JSON.
ResponseJson(response) ==
  IF response.body = Malformed THEN Throw(SyntaxError) ELSE Return(response.body)

\* What the upstream does with one outbound call: it answers, the
\* connection fails, or nothing arrives before the abort timer fires.
Answers(response) == [kind |-> "response", response |-> response]
Fails(error) == [kind |-> "error", error |-> error]
Silent == [kind |-> "silent"]

(***************************************************************************)
(* tools/overview.ts: rateLimitedFetch, for a caller that runs alone.      *)
(* st is [now, last, out]: the clock, lastRequestTime and the outbound     *)
(* calls dispatched so far by the running tool call.                       *)
(***************************************************************************)

\* ThrottleDelay as it would be if the wait were one millisecond short.
ThrottleDelayShort(t, last) ==
  IF t - last < RequestDelayMs THEN RequestDelayMs - (t - last) - 1 ELSE 0

\* Lines 16-23: the throttle delay of a call that starts at time t.
ThrottleDelay(t, last) ==
  IF t - last < RequestDelayMs THEN RequestDelayMs - (t - last) ELSE 0

\* Lines 37-49: the abort timer fires requestTimeoutMs after the dispatch.
FetchCompletion(up) ==
  CASE up.kind = "response" -> Return(up.response)
    [] up.kind = "error" -> Throw(up.error)
    [] up.kind = "silent" -> Throw(AbortError)

rateLimitedFetch(st, url, up) ==
  LET at == st.now + ThrottleDelay(st.now, st.last)
      end == IF up.kind = "silent" THEN at + RequestTimeoutMs ELSE at
  IN  [st |-> [now |-> end, last |-> at,
               out |-> Append(st.out, [url |-> url, at |-> at])],
       completion |-> FetchCompletion(up)]

(***************************************************************************)
(* tools/overview.ts: parseRepoUrl.  A URL string is a sequence of tokens, *)
(* such as <<"https:", "//", "github.com", "/", "a", "/", "b", ".git">>.    *)
(***************************************************************************)
Schemes == {"https:", "http:"}
Separators == {"/", "//", "?", "#"}
\* The WHATWG parser lower-cases the host.
LowerCase(h) ==
  CASE h = "GitHub.com" -> "github.com"
    [] h = "WWW.GITHUB.COM" -> "www.github.com"
    [] OTHER -> h

RECURSIVE PathOf(_)
\* The path of a URL: up to the query or the fragment.
PathOf(ts) ==
  IF ts = <<>> \/ Head(ts) \in {"?", "#"} THEN <<>>
  ELSE <<Head(ts)>> \o PathOf(Tail(ts))

\* new URL(url): throws on what is not an absolute URL.
NewURL(url) ==
  IF /\ Len(url) >= 3
     /\ url[1] \in Schemes
     /\ url[2] = "//"
     /\ url[3] \notin Separators
     /\ (Len(url) >= 4 => url[4] \in {"/", "?", "#"})
  THEN Return([hostname |-> LowerCase(url[3]),
               pathname |-> PathOf(SubSeq(url, 4, Len(url)))])
  ELSE Throw(Err("TypeError", "Invalid URL"))

RECURSIVE Split(_, _)
\* text.split(sep): the pieces between the separators, empty ones included.
Split(ts, sep) ==
  IF ts = <<>> THEN << <<>> >>
  ELSE LET rest == Split(Tail(ts), sep)
       IN  IF Head(ts) = sep THEN << <<>> >> \o rest
           ELSE << <<Head(ts)>> \o Head(rest) >> \o Tail(rest)

RECURSIVE FilterNonEmpty(_)
\* parts.filter(Boolean)
FilterNonEmpty(parts) ==
  IF parts = <<>> THEN <<>>
  ELSE IF Head(parts) = <<>> THEN FilterNonEmpty(Tail(parts))
  ELSE <<Head(parts)>> \o FilterNonEmpty(Tail(parts))

\* segment.replace(/\.git$/, '')
StripGitSuffix(segment) ==
  IF segment # <<>> /\ segment[Len(segment)] = ".git"
  THEN SubSeq(segment, 1, Len(segment) - 1)
  ELSE segment

\* parseRepoUrl as it would be if it kept the .git suffix of the second
\* segment.
parseRepoUrlKeepsSuffix(url) ==
  LET parsed == NewURL(url) IN
  IF parsed.kind = "throw" THEN Null
  ELSE IF parsed.value.hostname # "github.com" /\ parsed.value.hostname # "www.github.com"
  THEN Null
  ELSE LET pathParts == FilterNonEmpty(Split(parsed.value.pathname, "/")) IN
       IF Len(pathParts) < 2 THEN Null
       ELSE Obj([owner |-> Join(pathParts[1]),
                 repo |-> Join(pathParts[2])])

\* parseRepoUrl as it would be if it accepted every host that ends in
\* github.com.
parseRepoUrlHostSuffix(url) ==
  LET parsed == NewURL(url) IN
  IF parsed.kind = "throw" THEN Null
  ELSE IF parsed.value.hostname \notin
            {"github.com", "www.github.com", "api.github.com", "notgithub.com"}
  THEN Null
  ELSE LET pathParts == FilterNonEmpty(Split(parsed.value.pathname, "/")) IN
       IF Len(pathParts) < 2 THEN Null
       ELSE Obj([owner |-> Join(pathParts[1]),
                 repo |-> Join(StripGitSuffix(pathParts[2]))])

parseRepoUrl(url) ==
  LET parsed == NewURL(url) IN
  IF parsed.kind = "throw" THEN Null
  ELSE IF parsed.value.hostname # "github.com" /\ parsed.value.hostname # "www.github.com"
  THEN Null
  ELSE LET pathParts == FilterNonEmpty(Split(parsed.value.pathname, "/")) IN
       IF Len(pathParts) < 2 THEN Null
       ELSE Obj([owner |-> Join(pathParts[1]),
                 repo |-> Join(StripGitSuffix(pathParts[2]))])

InvalidUrlMessage ==
  "Invalid GitHub repository URL. Expected format: https://github.com/owner/repo"

\* InvalidUrl as it would be without its third argument: details is empty.
InvalidUrlNoDetails(repoUrl) ==
  createErrorResponse("INVALID_INPUT", InvalidUrlMessage, NoDetails)

\* The INVALID_INPUT envelope of a URL that parseRepoUrl returns null for.
InvalidUrl(repoUrl) ==
  createErrorResponse("INVALID_INPUT", InvalidUrlMessage, [provided_url |-> Join(repoUrl)])

(***************************************************************************)
(* The catch block that repoOverview, releaseNotes, extractKeyFiles and    *)
(* activitySnapshot share.                                                 *)
(***************************************************************************)

\* The catch block as it would be if it told a body that cannot be decoded
\* from another error.
ToolCatchParseError(error) ==
  IF error.isError
  THEN IF error.name = "AbortError"
       THEN createErrorResponse("TIMEOUT", "Request timed out",
                                [timeout_ms |-> RequestTimeoutMs])
       ELSE IF error.name = "SyntaxError"
       THEN createErrorResponse("PARSE_ERROR", error.message,
                                [error_name |-> error.name])
       ELSE createErrorResponse("INTERNAL_ERROR", error.message,
                                [error_name |-> error.name])
  ELSE createErrorResponse("INTERNAL_ERROR", "An unexpected error occurred", Undefined)

\* The catch block as it would be if it told an abort by the name
\* TimeoutError.
ToolCatchTimeoutError(error) ==
  IF error.isError
  THEN IF error.name = "TimeoutError"
       THEN createErrorResponse("TIMEOUT", "Request timed out",
                                [timeout_ms |-> RequestTimeoutMs])
       ELSE createErrorResponse("INTERNAL_ERROR", error.message,
                                [error_name |-> error.name])
  ELSE createErrorResponse("INTERNAL_ERROR", "An unexpected error occurred", Undefined)

\* The catch block as it would be if INTERNAL_ERROR carried no details.
ToolCatchNoName(error) ==
  IF error.isError
  THEN IF error.name = "AbortError"
       THEN createErrorResponse("TIMEOUT", "Request timed out",
                                [timeout_ms |-> RequestTimeoutMs])
       ELSE createErrorResponse("INTERNAL_ERROR", error.message, NoDetails)
  ELSE createErrorResponse("INTERNAL_ERROR", "An unexpected error occurred", Undefined)

ToolCatch(error) ==
  IF error.isError
  THEN IF error.name = "AbortError"
       THEN createErrorResponse("TIMEOUT", "Request timed out",
                                [timeout_ms |-> RequestTimeoutMs])
       ELSE createErrorResponse("INTERNAL_ERROR", error.message,
                                [error_name |-> error.name])
  ELSE createErrorResponse("INTERNAL_ERROR", "An unexpected error occurred", Undefined)

\* The status classification that repoOverview applies to a response before
\* it reads the body: Return(envelope) when the status
\* decides the result, Return(Null) on a 2xx response, Throw when the
\* reset header does not convert to a date.
RateLimitDetails(response) ==
  LET resetTime == HeadersGet(response, HReset) IN
  IF Truthy(resetTime)
  THEN LET iso == ToISOString(Times1000(ParseInt(resetTime.v))) IN
       IF iso.kind = "throw" THEN iso
       ELSE Return([reset_at |-> iso.value])
  ELSE Return([reset_at |-> Null])

ClassifyStatus(response, repoInfo) ==
  IF response.status = 404
  THEN Return(createErrorResponse("UPSTREAM_ERROR",
                "Repository not found: " \o repoInfo.v.owner \o "/" \o repoInfo.v.repo,
                [status |-> 404]))
  ELSE IF response.status = 403
  THEN IF HeadersGet(response, HRemaining) = Cs(<<"0">>)
       THEN LET details == RateLimitDetails(response) IN
            IF details.kind = "throw" THEN details
            ELSE Return(createErrorResponse("RATE_LIMITED",
                          "GitHub API rate limit exceeded", details.value))
       ELSE Return(createErrorResponse("UPSTREAM_ERROR", "Access forbidden",
                                       [status |-> 403]))
  ELSE IF ~ResponseOk(response)
  THEN Return(createErrorResponse("UPSTREAM_ERROR",
                "GitHub API error: " \o NumStr(response.status) \o " "
                  \o response.statusText,
                [status |-> response.status]))
  ELSE Return(Null)

(***************************************************************************)
(* tools/overview.ts: repoOverview.                                        *)
(***************************************************************************)
RepoApiUrl(repoInfo) ==
  "https://api.github.com/repos/" \o repoInfo.v.owner \o "/" \o repoInfo.v.repo

\* Lines 120-140: the reshaping of the decoded body.
OverviewData(data) ==
  IF NoProps(data) \/ NoProps(Get(data, "owner")) THEN Throw(PropTypeError)
  ELSE Return(
    [name |-> Get(data, "name"),
     full_name |-> Get(data, "full_name"),
     description |-> Get(data, "description"),
     stars |-> Get(data, "stargazers_count"),
     forks |-> Get(data, "forks_count"),
     language |-> Get(data, "language"),
     topics |-> Coalesce(Get(data, "topics"), Arr(<<>>)),
     license |-> IF Nullish(Get(data, "license")) THEN Null
                 ELSE Coalesce(Get(Get(data, "license"), "spdx_id"), Null),
     created_at |-> Get(data, "created_at"),
     updated_at |-> Get(data, "updated_at"),
     default_branch |-> Get(data, "default_branch"),
     homepage |-> Get(data, "homepage"),
     owner |-> [login |-> Get(Get(data, "owner"), "login"),
                avatar_url |-> Get(Get(data, "owner"), "avatar_url"),
                type |-> Get(Get(data, "owner"), "type")]])

\* Lines 87-144: the try block, given what rateLimitedFetch completed with.
RepoOverviewTry(repoInfo, fetched) ==
  IF fetched.kind = "throw" THEN fetched
  ELSE LET response == fetched.value
           early == ClassifyStatus(response, repoInfo)
       IN  IF early.kind = "throw" \/ early.value # Null THEN early
           ELSE LET decoded == ResponseJson(response) IN
                IF decoded.kind = "throw" THEN decoded
                ELSE LET shaped == OverviewData(decoded.value) IN
                     IF shaped.kind = "throw" THEN shaped
                     ELSE Return(createSuccessResponse(shaped.value,
                                   [source |-> RepoApiUrl(repoInfo)]))

\* Lines 145-157: the catch block.
RepoOverviewCatch(completion) ==
  IF completion.kind = "throw" THEN Return(ToolCatch(completion.error))
  ELSE completion

\* repoOverview(repoUrl) against upstream behaviour up, started in st:
\* [st, settled], where settled is Return(envelope) when the promise
\* resolves and Throw(error) when it rejects.
repoOverview(st, repoUrl, up) ==
  LET repoInfo == parseRepoUrl(repoUrl) IN
  IF repoInfo = Null
  THEN [st |-> st,
        settled |-> Return(InvalidUrl(repoUrl))]
  ELSE LET f == rateLimitedFetch(st, RepoApiUrl(repoInfo), up) IN
       [st |-> f.st,
        settled |-> RepoOverviewCatch(RepoOverviewTry(repoInfo, f.completion))]


(***************************************************************************)
(* The Link header.  Its value is a sequence of tokens, for instance       *)
(*   <<"<url?", "per_", "page=", "5", "&", "page=", "2", ">; ", RelNext>>  *)
(* for <url?per_page=5&page=2>; rel="next".                                *)
(***************************************************************************)
RelNext == "rel=\"next\""
RelLast == "rel=\"last\""
RelPrev == "rel=\"prev\""

\* The digits that /page=(\d+)>; rel="..."/ captures when it matches at the
\* head of ts; <<>> when it does not match there.
PageRelAt(ts, rel) ==
  IF ts = <<>> \/ Head(ts) # "page=" THEN <<>>
  ELSE LET ds == DigitPrefix(Tail(ts))
           rest == SubSeq(ts, 2 + Len(ds), Len(ts))
       IN  IF ds # <<>> /\ Len(rest) >= 2 /\ rest[1] = ">; " /\ rest[2] = rel
           THEN ds ELSE <<>>

RECURSIVE MatchPageRel(_, _)
\* text.match(/page=(\d+)>; rel="..."/): the capture of the leftmost match,
\* Null when there is none.
MatchPageRel(ts, rel) ==
  IF ts = <<>> THEN Null
  ELSE IF PageRelAt(ts, rel) # <<>> THEN Cs(PageRelAt(ts, rel))
  ELSE MatchPageRel(Tail(ts), rel)

\* text.includes(token)
Includes(ts, token) == \E i \in 1..Len(ts) : ts[i] = token

(***************************************************************************)
(* tools/releases.ts: releaseNotes.                                        *)
(***************************************************************************)
ReleasesApiUrl(repoInfo, limit) ==
  RepoApiUrl(repoInfo) \o "/releases?per_page=" \o NumStr(limit)

\* Lines 73-81: one release, reshaped.
ReleaseData(release) ==
  [tag_name |-> Get(release, "tag_name"),
   name |-> Get(release, "name"),
   body |-> Get(release, "body"),
   published_at |-> Get(release, "published_at"),
   prerelease |-> Get(release, "prerelease"),
   draft |-> Get(release, "draft"),
   html_url |-> Get(release, "html_url")]

\* data.map(...): throws unless data is an array of objects.
ReleasesMap(data) ==
  IF data.t # "arr" \/ \E i \in 1..Len(data.v) : NoProps(data.v[i])
  THEN Throw(PropTypeError)
  ELSE Return([i \in 1..Len(data.v) |-> ReleaseData(data.v[i])])

\* Lines 83-92.
NextCursor(response) ==
  LET linkHeader == HeadersGet(response, HLink) IN
  IF Truthy(linkHeader) /\ Includes(linkHeader.v, RelNext)
  THEN MatchPageRel(linkHeader.v, RelNext)
  ELSE Null

\* Lines 40-69: the status classification of releaseNotes, with the same
\* results as ClassifyStatus gives: Return(envelope), Return(Null) on a 2xx
\* response, Throw when the reset header does not convert to a date.
ReleaseClassifyStatus(response, repoInfo) ==
  IF response.status = 404
  THEN Return(createErrorResponse("UPSTREAM_ERROR",
                "Repository not found: " \o repoInfo.v.owner \o "/" \o repoInfo.v.repo,
                [status |-> 404]))
  ELSE IF response.status = 403
  THEN LET rateLimitRemaining == HeadersGet(response, HRemaining) IN
       IF rateLimitRemaining = Cs(<<"0">>)
       THEN LET resetTime == HeadersGet(response, HReset)
                iso == IF Truthy(resetTime)
                       THEN ToISOString(Times1000(ParseInt(resetTime.v)))
                       ELSE Return(Null)
            IN  IF iso.kind = "throw" THEN iso
                ELSE Return(createErrorResponse("RATE_LIMITED",
                              "GitHub API rate limit exceeded",
                              [reset_at |-> iso.value]))
       ELSE Return(createErrorResponse("UPSTREAM_ERROR", "Access forbidden",
                                       [status |-> 403]))
  ELSE IF ~ResponseOk(response)
  THEN Return(createErrorResponse("UPSTREAM_ERROR",
                "GitHub API error: " \o NumStr(response.status) \o " "
                  \o response.statusText,
                [status |-> response.status]))
  ELSE Return(Null)

\* The try block as it would be if an empty release list raised no warning.
ReleaseNotesTryNoWarning(repoInfo, limit, fetched) ==
  IF fetched.kind = "throw" THEN fetched
  ELSE LET response == fetched.value
           early == ReleaseClassifyStatus(response, repoInfo)
       IN  IF early.kind = "throw" \/ early.value # Null THEN early
           ELSE LET decoded == ResponseJson(response) IN
                IF decoded.kind = "throw" THEN decoded
                ELSE LET releases == ReleasesMap(decoded.value) IN
                     IF releases.kind = "throw" THEN releases
                     ELSE Return(createSuccessResponse(
                            [releases |-> releases.value,
                             total_count |-> Len(releases.value)],
                            [source |-> ReleasesApiUrl(repoInfo, limit),
                             next_cursor |-> NextCursor(response),
                             warnings |-> <<>>]))

\* Lines 38-104: the try block.
ReleaseNotesTry(repoInfo, limit, fetched) ==
  IF fetched.kind = "throw" THEN fetched
  ELSE LET response == fetched.value
           early == ReleaseClassifyStatus(response, repoInfo)
       IN  IF early.kind = "throw" \/ early.value # Null THEN early
           ELSE LET decoded == ResponseJson(response) IN
                IF decoded.kind = "throw" THEN decoded
                ELSE LET releases == ReleasesMap(decoded.value) IN
                     IF releases.kind = "throw" THEN releases
                     ELSE Return(createSuccessResponse(
                            [releases |-> releases.value,
                             total_count |-> Len(releases.value)],
                            [source |-> ReleasesApiUrl(repoInfo, limit),
                             next_cursor |-> NextCursor(response),
                             warnings |-> IF Len(releases.value) = 0
                                          THEN <<"No releases found for this repository">>
                                          ELSE <<>>]))

\* The catch block of releaseNotes as it would be if it did not tell an
\* abort from another error.
ReleaseNotesCatchNoTimeout(completion) ==
  IF completion.kind = "throw"
  THEN Return(IF completion.error.isError
              THEN createErrorResponse("INTERNAL_ERROR", completion.error.message,
                                       [error_name |-> completion.error.name])
              ELSE createErrorResponse("INTERNAL_ERROR", "An unexpected error occurred",
                                       Undefined))
  ELSE completion

\* Lines 105-117: the catch block.
ReleaseNotesCatch(completion) ==
  IF completion.kind = "throw"
  THEN LET error == completion.error IN
       Return(IF error.isError
              THEN IF error.name = "AbortError"
                   THEN createErrorResponse("TIMEOUT", "Request timed out",
                                            [timeout_ms |-> RequestTimeoutMs])
                   ELSE createErrorResponse("INTERNAL_ERROR", error.message,
                                            [error_name |-> error.name])
              ELSE createErrorResponse("INTERNAL_ERROR", "An unexpected error occurred",
                                       Undefined))
  ELSE completion

\* The default of the limit parameter.
DefaultLimit == 5
MinLimit == 1
MaxLimit == 100

\* releaseNotes as it would be if the upper end of the limit check were
\* missing.
releaseNotesNoUpperLimit(st, repoUrl, limitArg, up) ==
  LET repoInfo == parseRepoUrl(repoUrl)
      limit == IF limitArg = Undefined THEN DefaultLimit ELSE limitArg.v
  IN
  IF repoInfo = Null
  THEN [st |-> st,
        settled |-> Return(InvalidUrl(repoUrl))]
  ELSE IF limit < MinLimit
  THEN [st |-> st,
        settled |-> Return(createErrorResponse("INVALID_INPUT",
                             "Limit must be between 1 and 100",
                             [provided_limit |-> limit]))]
  ELSE LET f == rateLimitedFetch(st, ReleasesApiUrl(repoInfo, limit), up) IN
       [st |-> f.st,
        settled |-> ReleaseNotesCatch(ReleaseNotesTry(repoInfo, limit, f.completion))]

releaseNotes(st, repoUrl, limitArg, up) ==
  LET repoInfo == parseRepoUrl(repoUrl)
      limit == IF limitArg = Undefined THEN DefaultLimit ELSE limitArg.v
  IN
  IF repoInfo = Null
  THEN [st |-> st,
        settled |-> Return(InvalidUrl(repoUrl))]
  ELSE IF limit < MinLimit \/ limit > MaxLimit
  THEN [st |-> st,
        settled |-> Return(createErrorResponse("INVALID_INPUT",
                             "Limit must be between 1 and 100",
                             [provided_limit |-> limit]))]
  ELSE LET f == rateLimitedFetch(st, ReleasesApiUrl(repoInfo, limit), up) IN
       [st |-> f.st,
        settled |-> ReleaseNotesCatch(ReleaseNotesTry(repoInfo, limit, f.completion))]

(***************************************************************************)
(* Calls of rateLimitedFetch that one tool call starts together (the       *)
(* map over the file paths in extractKeyFiles, the Promise.all of          *)
(* activitySnapshot).  Each runs up to its first await before the next     *)
(* starts, all at the same Date.now(): a call that need not wait writes    *)
(* lastRequestTime and dispatches at once, a call that must wait sleeps    *)
(* and writes lastRequestTime when its timer fires.                        *)
(***************************************************************************)
Max(a, b) == IF a >= b THEN a ELSE b

RECURSIVE ParallelDispatch(_, _, _)
\* The dispatch times of n calls started together at time t.
ParallelDispatch(t, last, n) ==
  IF n = 0 THEN <<>>
  ELSE LET d == ThrottleDelay(t, last)
       IN  <<t + d>> \o ParallelDispatch(t, IF d = 0 THEN t ELSE last, n - 1)

RECURSIVE LatestOf(_)
LatestOf(ts) == IF ts = <<>> THEN 0 ELSE Max(Head(ts), LatestOf(Tail(ts)))

\* parallelFetch as it would be if the calls shared one abort signal: a
\* call that fails or times out aborts the calls started with it.
parallelFetchSharedAbort(st, urls, ups) ==
  LET n == Len(urls)
      at == ParallelDispatch(st.now, st.last, n)
      end == [i \in 1..n |-> IF ups[i].kind = "silent" THEN at[i] + RequestTimeoutMs
                             ELSE at[i]]
  IN  [st |-> [now |-> Max(st.now, LatestOf(end)),
               last |-> Max(st.last, LatestOf(at)),
               out |-> st.out \o [i \in 1..n |-> [url |-> urls[i], at |-> at[i]]]],
       completions |-> [i \in 1..n |->
                          IF \E j \in 1..n : j # i /\ ups[j].kind # "response"
                          THEN Throw(AbortError)
                          ELSE FetchCompletion(ups[i])]]

parallelFetch(st, urls, ups) ==
  LET n == Len(urls)
      at == ParallelDispatch(st.now, st.last, n)
      end == [i \in 1..n |-> IF ups[i].kind = "silent" THEN at[i] + RequestTimeoutMs
                             ELSE at[i]]
  IN  [st |-> [now |-> Max(st.now, LatestOf(end)),
               last |-> Max(st.last, LatestOf(at)),
               out |-> st.out \o [i \in 1..n |-> [url |-> urls[i], at |-> at[i]]]],
       completions |-> [i \in 1..n |-> FetchCompletion(ups[i])]]

(***************************************************************************)
(* tools/files.ts: extractKeyFiles.                                        *)
(***************************************************************************)
DEFAULT_PATHS == <<"README.md", "LICENSE", "package.json", "pyproject.toml">>

RawFileUrl(repoInfo, branch, path) ==
  "https://raw.githubusercontent.com/" \o repoInfo.v.owner \o "/" \o repoInfo.v.repo
    \o "/" \o branch \o "/" \o path

\* response.text(): throws when the body cannot be read.
ResponseText(response) ==
  IF response.body = Malformed THEN Throw(Err("TypeError", "terminated"))
  ELSE Return(response.body)

FileFailure(path, error) ==
  [path |-> path, content |-> Null, size |-> Null, encoding |-> "utf-8",
   error |-> error]

\* fetchRawFile as it would be if a response that is not ok kept an (empty)
\* content beside its error.
fetchRawFileKeepsContent(path, fetched) ==
  LET caught(error) ==
        FileFailure(path, IF error.isError THEN error.message ELSE "Unknown error")
  IN
  IF fetched.kind = "throw" THEN caught(fetched.error)
  ELSE LET response == fetched.value IN
       IF response.status = 404 THEN FileFailure(path, "File not found")
       ELSE IF ~ResponseOk(response)
       THEN [path |-> path, content |-> S(""), size |-> N(0), encoding |-> "utf-8",
             error |-> "HTTP " \o NumStr(response.status) \o ": " \o response.statusText]
       ELSE LET content == ResponseText(response) IN
            IF content.kind = "throw" THEN caught(content.error)
            ELSE [path |-> path, content |-> content.value,
                  size |-> N(Len(content.value.v)), encoding |-> "utf-8"]

\* fetchRawFile, given what its rateLimitedFetch completed with.
fetchRawFile(path, fetched) ==
  LET caught(error) ==
        FileFailure(path, IF error.isError THEN error.message ELSE "Unknown error")
  IN
  IF fetched.kind = "throw" THEN caught(fetched.error)
  ELSE LET response == fetched.value IN
       IF response.status = 404 THEN FileFailure(path, "File not found")
       ELSE IF ~ResponseOk(response)
       THEN FileFailure(path, "HTTP " \o NumStr(response.status) \o ": "
                                \o response.statusText)
       ELSE LET content == ResponseText(response) IN
            IF content.kind = "throw" THEN caught(content.error)
            ELSE [path |-> path, content |-> content.value,
                  size |-> N(Len(content.value.v)), encoding |-> "utf-8"]

\* file.error: undefined on a file that was fetched.
FileError(file) == IF "error" \in DOMAIN file THEN S(file.error) ELSE Undefined

\* getDefaultBranch as it would be without the fallback to "main".
getDefaultBranchNoFallback(fetched) ==
  IF fetched.kind = "throw" THEN Null
  ELSE LET response == fetched.value IN
       IF ~ResponseOk(response) THEN Null
       ELSE LET decoded == ResponseJson(response) IN
            IF decoded.kind = "throw" \/ NoProps(decoded.value) THEN Null
            ELSE Coalesce(Get(decoded.value, "default_branch"), Null)

\* getDefaultBranch, given what its rateLimitedFetch completed with: the
\* branch name, or Null.
getDefaultBranch(fetched) ==
  IF fetched.kind = "throw" THEN Null
  ELSE LET response == fetched.value IN
       IF ~ResponseOk(response) THEN Null
       ELSE LET decoded == ResponseJson(response) IN
            IF decoded.kind = "throw" \/ NoProps(decoded.value) THEN Null
            ELSE Coalesce(Get(decoded.value, "default_branch"), S("main"))

RECURSIVE JoinWith(_, _)
\* parts.join(sep)
JoinWith(parts, sep) ==
  IF parts = <<>> THEN ""
  ELSE IF Len(parts) = 1 THEN parts[1]
  ELSE parts[1] \o sep \o JoinWith(Tail(parts), sep)

\* The warnings as they would be if every failed file went into one
\* warning.
FileWarningsMerged(files) ==
  LET failed(f) == Truthy(FileError(f))
      filesFailed == SelectSeq(files, failed)
  IN  IF Len(filesFailed) > 0
      THEN <<"Files not found: "
              \o JoinWith([i \in 1..Len(filesFailed) |-> filesFailed[i].path], ", ")>>
      ELSE <<>>

\* Lines 114-127.
FileWarnings(files) ==
  LET notFound(f) == FileError(f) = S("File not found")
      otherError(f) == Truthy(FileError(f)) /\ FileError(f) # S("File not found")
      filesNotFound == SelectSeq(files, notFound)
      filesWithErrors == SelectSeq(files, otherError)
  IN  (IF Len(filesNotFound) > 0
       THEN <<"Files not found: "
               \o JoinWith([i \in 1..Len(filesNotFound) |-> filesNotFound[i].path], ", ")>>
       ELSE <<>>)
      \o
      (IF Len(filesWithErrors) > 0
       THEN <<"Errors fetching files: "
               \o JoinWith([i \in 1..Len(filesWithErrors) |->
                              filesWithErrors[i].path \o ": " \o filesWithErrors[i].error],
                           "; ")>>
       ELSE <<>>)

\* Lines 111-138: the try block.  Promise.all of promises that never reject.
ExtractKeyFilesTry(repoInfo, defaultBranch, files) ==
  Return(createSuccessResponse(
    [files |-> files, default_branch |-> defaultBranch],
    [source |-> "https://github.com/" \o repoInfo.v.owner \o "/" \o repoInfo.v.repo,
     warnings |-> FileWarnings(files)]))

\* Lines 139-151: the catch block.
ExtractKeyFilesCatch(completion) ==
  IF completion.kind = "throw" THEN Return(ToolCatch(completion.error))
  ELSE completion

\* Lines 107-151: the file fetches, started together, and the envelope.
ExtractKeyFilesFetch(repoInfo, defaultBranch, filePaths, par) ==
  [st |-> par.st,
   settled |-> ExtractKeyFilesCatch(
                 ExtractKeyFilesTry(repoInfo, defaultBranch,
                   [i \in 1..Len(filePaths) |->
                      fetchRawFile(filePaths[i], par.completions[i])]))]

\* ExtractKeyFilesLookup as it would be if the files were fetched from
\* main when the lookup names no branch.
ExtractKeyFilesLookupNoGuard(repoInfo, filePaths, lookup, defaultBranch, ups) ==
  LET branch == IF ~Truthy(defaultBranch) THEN "main" ELSE defaultBranch.v IN
  ExtractKeyFilesFetch(repoInfo, branch, filePaths,
    parallelFetch(lookup.st,
      [i \in 1..Len(filePaths) |-> RawFileUrl(repoInfo, branch, filePaths[i])],
      ups.files))

\* Lines 96-151: from the default-branch lookup on.
ExtractKeyFilesLookup(repoInfo, filePaths, lookup, defaultBranch, ups) ==
  IF ~Truthy(defaultBranch)
  THEN [st |-> lookup.st,
        settled |-> Return(createErrorResponse("UPSTREAM_ERROR",
           "Could not determine default branch for " \o repoInfo.v.owner \o "/"
             \o repoInfo.v.repo \o ". Repository may not exist or be private.",
           [owner |-> repoInfo.v.owner, repo |-> repoInfo.v.repo]))]
  ELSE ExtractKeyFilesFetch(repoInfo, defaultBranch.v, filePaths,
         parallelFetch(lookup.st,
           [i \in 1..Len(filePaths) |->
              RawFileUrl(repoInfo, defaultBranch.v, filePaths[i])],
           ups.files))

ExtractKeyFilesParsed(st, repoInfo, filePaths, lookup, ups) ==
  ExtractKeyFilesLookup(repoInfo, filePaths, lookup,
                        getDefaultBranch(lookup.completion), ups)

\* extractKeyFiles(repoUrl, paths): ups.branch is what the default-branch
\* lookup meets, ups.files what each raw-file fetch meets.
extractKeyFiles(st, repoUrl, paths, ups) ==
  IF parseRepoUrl(repoUrl) = Null
  THEN [st |-> st, settled |-> Return(InvalidUrl(repoUrl))]
  ELSE ExtractKeyFilesParsed(st, parseRepoUrl(repoUrl),
         IF Truthy(paths) /\ Len(paths.v) > 0 THEN paths.v ELSE DEFAULT_PATHS,
         rateLimitedFetch(st, RepoApiUrl(parseRepoUrl(repoUrl)), ups.branch), ups)

(***************************************************************************)
(* tools/activity.ts: activitySnapshot.  Each fetch helper is given what   *)
(* its rateLimitedFetch completed with.                                    *)
(***************************************************************************)
\* data.length: the length of an array, undefined on another object,
\* a TypeError on null.
LengthOf(data) ==
  IF NoProps(data) THEN Throw(PropTypeError)
  ELSE IF data.t = "arr" THEN Return(N(Len(data.v)))
  ELSE Return(Undefined)

fetchRepoInfo(fetched) ==
  IF fetched.kind = "throw" THEN Null
  ELSE IF ~ResponseOk(fetched.value) THEN Null
  ELSE LET decoded == ResponseJson(fetched.value) IN
       IF decoded.kind = "throw" THEN Null ELSE decoded.value

fetchLatestCommit(fetched) ==
  IF fetched.kind = "throw" THEN Null
  ELSE IF ~ResponseOk(fetched.value) THEN Null
  ELSE LET decoded == ResponseJson(fetched.value) IN
       IF decoded.kind = "throw" THEN Null
       ELSE LET length == LengthOf(decoded.value) IN
            IF length.kind = "throw" THEN Null
            ELSE IF length.value # Undefined /\ length.value.v > 0
            THEN decoded.value.v[1]
            ELSE Null

\* fetchOpenPRsCount and fetchContributorsCount: the same code on two URLs.
CountFromLink(fetched) ==
  IF fetched.kind = "throw" THEN Null
  ELSE IF ~ResponseOk(fetched.value) THEN Null
  ELSE LET linkHeader == HeadersGet(fetched.value, HLink)
           lastMatch == IF Truthy(linkHeader) THEN MatchPageRel(linkHeader.v, RelLast)
                        ELSE Null
       IN  IF lastMatch # Null
           THEN N(ParseInt(lastMatch.v).v)
           ELSE LET decoded == ResponseJson(fetched.value) IN
                IF decoded.kind = "throw" THEN Null
                ELSE LET length == LengthOf(decoded.value) IN
                     IF length.kind = "throw" THEN Null ELSE length.value

fetchOpenPRsCount(fetched) == CountFromLink(fetched)
fetchContributorsCount(fetched) == CountFromLink(fetched)

\* Lines 118-130.
ActivityWarnings(latestCommit, openPRsCount, contributorsCount) ==
  (IF openPRsCount = Null THEN <<"Could not fetch open PRs count">> ELSE <<>>)
  \o (IF contributorsCount = Null THEN <<"Could not fetch contributors count">>
      ELSE <<>>)
  \o (IF ~Truthy(latestCommit) THEN <<"Could not fetch latest commit information">>
      ELSE <<>>)

\* Lines 132-141: latestCommit?.commit.author.date and
\* latestCommit?.commit.message throw when commit or author is missing.
ActivityData(repoData, latestCommit, openPRsCount, contributorsCount) ==
  LET commit == Get(latestCommit, "commit") IN
  IF ~Nullish(latestCommit) /\ (NoProps(commit) \/ NoProps(Get(commit, "author")))
  THEN Throw(PropTypeError)
  ELSE Return(
    [last_commit_date |->
       IF Nullish(latestCommit) THEN Null
       ELSE Coalesce(Get(Get(commit, "author"), "date"), Null),
     last_commit_message |->
       IF Nullish(latestCommit) THEN Null ELSE Coalesce(Get(commit, "message"), Null),
     open_issues_count |-> Get(repoData, "open_issues_count"),
     open_prs_count |-> Coalesce(openPRsCount, N(0)),
     contributors_count |-> Coalesce(contributorsCount, N(0)),
     watchers_count |-> Get(repoData, "watchers_count"),
     has_wiki |-> Get(repoData, "has_wiki"),
     has_discussions |-> Get(repoData, "has_discussions")])

\* Lines 102-146: the try block, given the four results.
ActivitySnapshotTry(repoInfo, repoData, latestCommit, openPRsCount, contributorsCount) ==
  IF ~Truthy(repoData)
  THEN Return(createErrorResponse("UPSTREAM_ERROR",
         "Could not fetch repository data for " \o repoInfo.v.owner \o "/"
           \o repoInfo.v.repo \o ". Repository may not exist or be private.",
         [owner |-> repoInfo.v.owner, repo |-> repoInfo.v.repo]))
  ELSE LET activityData ==
             ActivityData(repoData, latestCommit, openPRsCount, contributorsCount)
       IN  IF activityData.kind = "throw" THEN activityData
           ELSE Return(createSuccessResponse(activityData.value,
                  [source |-> RepoApiUrl(repoInfo),
                   warnings |-> ActivityWarnings(latestCommit, openPRsCount,
                                                 contributorsCount)]))

\* activitySnapshot as it would be without its catch block.
ActivitySnapshotNoCatch(completion) == completion

\* Lines 147-159: the catch block.
ActivitySnapshotCatch(completion) ==
  IF completion.kind = "throw" THEN Return(ToolCatch(completion.error))
  ELSE completion

\* Lines 102-159: the Promise.all of the four helpers, and the envelope.
ActivitySnapshotFetch(repoInfo, par) ==
  [st |-> par.st,
   settled |-> ActivitySnapshotCatch(
      ActivitySnapshotTry(repoInfo,
        fetchRepoInfo(par.completions[1]),
        fetchLatestCommit(par.completions[2]),
        fetchOpenPRsCount(par.completions[3]),
        fetchContributorsCount(par.completions[4])))]

ActivityUrls(base) ==
  <<base, base \o "/commits?per_page=1", base \o "/pulls?state=open&per_page=1",
    base \o "/contributors?per_page=1&anon=true">>

\* activitySnapshot(repoUrl): ups is what the four fetches meet, in the
\* order of the Promise.all (repository, commit, pulls, contributors).
activitySnapshot(st, repoUrl, ups) ==
  IF parseRepoUrl(repoUrl) = Null
  THEN [st |-> st, settled |-> Return(InvalidUrl(repoUrl))]
  ELSE ActivitySnapshotFetch(parseRepoUrl(repoUrl),
         parallelFetch(st, ActivityUrls(RepoApiUrl(parseRepoUrl(repoUrl))), ups))

(***************************************************************************)
(* types.ts: the input schemas.  safeParse gives [success, data] or        *)
(* [success, errors], the list of the violations.  An argument value is    *)
(* Undefined (missing), Cs(tokens) (a string), N(n) (an integer),          *)
(* Half(n) (the number n + 0.5) or Arr(values).                            *)
(***************************************************************************)
Half(n) == [t |-> "half", v |-> n]

\* Lines 90-100: z.string().url().refine(host is github.com).
RepoUrlSchema(v) ==
  IF v = Undefined THEN <<"repo_url: Required">>
  ELSE IF v.t # "chars" THEN <<"repo_url: Expected string">>
  ELSE LET parsed == NewURL(v.v) IN
       (IF parsed.kind = "throw" THEN <<"repo_url: Invalid url">> ELSE <<>>)
       \o (IF parsed.kind = "throw"
              \/ (parsed.value.hostname # "github.com"
                  /\ parsed.value.hostname # "www.github.com")
           THEN <<"repo_url: URL must be a valid GitHub repository URL">>
           ELSE <<>>)

\* The limit schema as it would be without .max(100).
LimitSchemaNoMax(v) ==
  IF v = Undefined THEN <<>>
  ELSE IF v.t \notin {"num", "half"} THEN <<"limit: Expected number">>
  ELSE (IF v.t # "num" THEN <<"limit: Expected integer">> ELSE <<>>)
       \o (IF (v.t = "num" /\ v.v <= 0) \/ (v.t = "half" /\ v.v < 0)
           THEN <<"limit: Number must be greater than 0">> ELSE <<>>)

\* Line 113: z.number().int().positive().max(100).optional().default(5).
LimitSchema(v) ==
  IF v = Undefined THEN <<>>
  ELSE IF v.t \notin {"num", "half"} THEN <<"limit: Expected number">>
  ELSE (IF v.t # "num" THEN <<"limit: Expected integer">> ELSE <<>>)
       \o (IF (v.t = "num" /\ v.v <= 0) \/ (v.t = "half" /\ v.v < 0)
           THEN <<"limit: Number must be greater than 0">> ELSE <<>>)
       \o (IF (v.t = "num" /\ v.v > MaxLimit) \/ (v.t = "half" /\ v.v >= MaxLimit)
           THEN <<"limit: Number must be less than or equal to 100">> ELSE <<>>)

\* Line 108: z.array(z.string()).optional().
PathsSchema(v) ==
  IF v = Undefined THEN <<>>
  ELSE IF v.t # "arr" THEN <<"paths: Expected array">>
  ELSE IF \E i \in 1..Len(v.v) : v.v[i].t # "str" THEN <<"paths: Expected string">>
  ELSE <<>>

SafeParse(errors, data) ==
  IF errors = <<>> THEN [success |-> TRUE, data |-> data]
  ELSE [success |-> FALSE, errors |-> errors]

\* z.object(...): the arguments must be an object.
ArgsOf(args) == IF args = Undefined \/ args.t # "obj" THEN Undefined ELSE args
NotAnObject == <<"Expected object">>

RepoOverviewInputSchema(args) ==
  IF ArgsOf(args) = Undefined THEN SafeParse(NotAnObject, Undefined)
  ELSE SafeParse(RepoUrlSchema(Get(args, "repo_url")),
                 [repo_url |-> Get(args, "repo_url")])

ExtractKeyFilesInputSchema(args) ==
  IF ArgsOf(args) = Undefined THEN SafeParse(NotAnObject, Undefined)
  ELSE SafeParse(RepoUrlSchema(Get(args, "repo_url")) \o PathsSchema(Get(args, "paths")),
                 [repo_url |-> Get(args, "repo_url"), paths |-> Get(args, "paths")])

ReleaseNotesInputSchema(args) ==
  IF ArgsOf(args) = Undefined THEN SafeParse(NotAnObject, Undefined)
  ELSE SafeParse(RepoUrlSchema(Get(args, "repo_url")) \o LimitSchema(Get(args, "limit")),
                 [repo_url |-> Get(args, "repo_url"),
                  limit |-> Coalesce(Get(args, "limit"), N(DefaultLimit))])

ActivitySnapshotInputSchema(args) ==
  IF ArgsOf(args) = Undefined THEN SafeParse(NotAnObject, Undefined)
  ELSE SafeParse(RepoUrlSchema(Get(args, "repo_url")),
                 [repo_url |-> Get(args, "repo_url")])

\* paths as extractKeyFiles takes them: the strings of the array.
PathStrings(paths) ==
  IF paths = Undefined THEN Undefined
  ELSE Arr([i \in 1..Len(paths.v) |-> paths.v[i].v])

(***************************************************************************)
(* The tool-call handlers.  JSON.stringify drops the members whose value   *)
(* is undefined: meta.source of a success envelope built without a source. *)
(***************************************************************************)
JsonStringify(envelope) ==
  IF envelope.ok /\ envelope.meta.source = Undefined
  THEN [json |-> [ok |-> TRUE, data |-> envelope.data,
                  meta |-> [pagination |-> envelope.meta.pagination,
                            warnings |-> envelope.meta.warnings]]]
  ELSE [json |-> envelope]

TextContent(envelope) ==
  [content |-> <<[type |-> "text", text |-> JsonStringify(envelope)]>>]

\* The envelope both handlers build when safeParse fails.
InvalidParameters(errors) ==
  [ok |-> FALSE,
   error |-> [code |-> "INVALID_INPUT", message |-> "Invalid input parameters",
              details |-> [errors |-> errors]]]

\* The tool that a validated call runs.  ups is [repo, releases, files,
\* four]: what the fetch of repo_overview meets, what the fetch of
\* release_notes meets, what the fetches of extract_key_files meet, what
\* the four fetches of activity_snapshot meet.
RunTool(st, name, data, ups) ==
  CASE name = "repo_overview" -> repoOverview(st, data.repo_url.v, ups.repo)
    [] name = "extract_key_files" ->
         extractKeyFiles(st, data.repo_url.v, PathStrings(data.paths), ups.files)
    [] name = "release_notes" -> releaseNotes(st, data.repo_url.v, data.limit, ups.releases)
    [] name = "activity_snapshot" -> activitySnapshot(st, data.repo_url.v, ups.four)

ToolSchema(name, args) ==
  CASE name = "repo_overview" -> RepoOverviewInputSchema(args)
    [] name = "extract_key_files" -> ExtractKeyFilesInputSchema(args)
    [] name = "release_notes" -> ReleaseNotesInputSchema(args)
    [] name = "activity_snapshot" -> ActivitySnapshotInputSchema(args)

ToolNames == {"repo_overview", "extract_key_files", "release_notes", "activity_snapshot"}

\* What the handler of createServer returns once the tool has settled:
\* the envelope of the tool, or the envelope of the catch block.
CallToolReturn(run) ==
  [st |-> run.st, invoked |-> TRUE,
   settled |->
     IF run.settled.kind = "throw"
     THEN Return(TextContent(
       [ok |-> FALSE,
        error |-> [code |-> "INTERNAL_ERROR",
                   message |-> IF run.settled.error.isError
                               THEN run.settled.error.message
                               ELSE "Unknown error",
                   details |-> NoDetails]]))
     ELSE Return(TextContent(run.settled.value))]

CallToolInvalid(st, parsed) ==
  [st |-> st, invoked |-> FALSE, settled |-> Return(TextContent(InvalidParameters(parsed.errors)))]

\* index.ts: the CallToolRequestSchema handler of createServer.
CallToolHandler(st, name, args, ups) ==
  IF name \notin ToolNames
  THEN [st |-> st, invoked |-> FALSE,
        settled |-> Return(TextContent(
          [ok |-> FALSE,
           error |-> [code |-> "INVALID_INPUT", message |-> "Unknown tool: " \o name,
                      details |-> NoDetails]]))]
  ELSE IF ~ToolSchema(name, args).success
  THEN CallToolInvalid(st, ToolSchema(name, args))
  ELSE CallToolReturn(RunTool(st, name, ToolSchema(name, args).data, ups))

JsonRpcResult(id, result) == [jsonrpc |-> "2.0", id |-> id, result |-> result]
JsonRpcError(id, code, message) ==
  [jsonrpc |-> "2.0", id |-> id, error |-> [code |-> code, message |-> message]]
MethodNotFound == -32601
InternalRpcError == -32603

\* What tools/call returns once the tool has settled: the envelope of the
\* tool as a result, or the error of the catch block.
ToolsCallReturn(id, run) ==
  [st |-> run.st, invoked |-> TRUE,
   settled |->
     IF run.settled.kind = "throw"
     THEN Return(JsonRpcError(id, InternalRpcError,
            "Internal error: "
              \o (IF run.settled.error.isError THEN run.settled.error.message
                  ELSE "Unknown error")))
     ELSE Return(JsonRpcResult(id, TextContent(run.settled.value)))]

ToolsCallInvalid(st, id, parsed) ==
  [st |-> st, invoked |-> FALSE,
   settled |-> Return(JsonRpcResult(id, TextContent(InvalidParameters(parsed.errors))))]

\* transport/http.ts: handleJsonRpcRequest.  params is Undefined or
\* [name, arguments]; a missing tool name reads as "undefined".
handleJsonRpcRequest(st, request, ups) ==
  LET id == request.id
      toolName == IF request.params = Undefined THEN "undefined"
                  ELSE request.params.name
      args == IF request.params = Undefined THEN Undefined
              ELSE request.params.arguments
  IN
  CASE request.method = "initialize" ->
         [st |-> st, invoked |-> FALSE,
          settled |-> Return(JsonRpcResult(id,
            [protocolVersion |-> "2024-11-05",
             serverInfo |-> [name |-> "git-repo-brief", version |-> "1.0.0"]]))]
    [] request.method = "tools/list" ->
         [st |-> st, invoked |-> FALSE, settled |-> Return(JsonRpcResult(id, [tools |-> ToolNames]))]
    [] request.method = "tools/call" ->
         IF toolName \notin ToolNames
         THEN [st |-> st, invoked |-> FALSE,
               settled |-> Return(JsonRpcError(id, MethodNotFound,
                                               "Unknown tool: " \o toolName))]
         ELSE IF ~ToolSchema(toolName, args).success
         THEN ToolsCallInvalid(st, id, ToolSchema(toolName, args))
         ELSE ToolsCallReturn(id, RunTool(st, toolName, ToolSchema(toolName, args).data, ups))
    [] OTHER ->
         [st |-> st, invoked |-> FALSE,
          settled |-> Return(JsonRpcError(id, MethodNotFound,
                                          "Method not found: " \o request.method))]

(***************************************************************************)
(* The inputs of the model.                                                *)
(***************************************************************************)
\* Repository URLs that parseRepoUrl turns into a reference: the plain form,
\* with a .git suffix, with further path segments, with a doubled suffix,
\* with empty path segments and a fragment, and with a second segment that
\* is the suffix alone.
GoodUrls ==
  { <<"https:", "//", "github.com", "/", "owner", "/", "repo">>,
    <<"https:", "//", "www.github.com", "/", "a", "/", "b", ".git", "/", "tree", "/", "main">>,
    <<"https:", "//", "github.com", "/", "a", "/", "b">>,
    <<"https:", "//", "github.com", "/", "a", "/", "b", ".git">>,
    <<"https:", "//", "github.com", "/", "a", "/", "b", "/", "tree", "/", "main">>,
    <<"https:", "//", "github.com", "/", "a", "/", "b", ".git", ".git">>,
    <<"https:", "//", "github.com", "/", "/", "a", "/", "/", "b", "/", "#", "c", "/", "d">>,
    <<"https:", "//", "github.com", "/", "a", "/", ".git">> }
\* Strings that are no URL, URLs of other hosts (look-alikes included) and
\* GitHub URLs with fewer than two path segments.
BadUrls ==
  { <<"not-a-valid-url">>,
    <<"github.com", "/", "a", "/", "b">>,
    <<"https:", "//", "gitlab.com", "/", "a", "/", "b">>,
    <<"https:", "//", "api.github.com", "/", "a", "/", "b">>,
    <<"https:", "//", "github.com.evil.com", "/", "a", "/", "b">>,
    <<"https:", "//", "notgithub.com", "/", "a", "/", "b">>,
    <<"https:", "//", "github.com">>,
    <<"https:", "//", "github.com", "/", "a">>,
    <<"https:", "//", "github.com", "/", "/", "a", "/", "?", "b", "/", "c">> }
Urls == GoodUrls \cup BadUrls
FirstUrl == <<"https:", "//", "github.com", "/", "owner", "/", "repo">>

NoHeaders == Headers(Null, Null, Null)
RemainingValues == {Null, Cs(<<"0">>), Cs(<<"1">>), Cs(<<"0", "0">>)}
\* x-ratelimit-reset: absent, empty, epoch seconds, epoch seconds with a
\* trailing unit, and text that is no number.
ResetValues ==
  {Null, Cs(<<>>), Cs(<<"1", "7">>), Cs(<<"1", "7", "s">>), Cs(<<"s", "o", "o", "n">>)}
ErrorStatuses == {304, 404, 429, 500}
OkStatuses == {200, 201}

\* The repository resource, GET /repos/{owner}/{repo}.
RepoBodyFull ==
  Obj([name |-> S("repo"), full_name |-> S("owner/repo"), description |-> Null,
       stargazers_count |-> N(100), forks_count |-> N(10), language |-> S("TypeScript"),
       topics |-> Arr(<<S("mcp")>>), license |-> Obj([spdx_id |-> S("MIT")]),
       created_at |-> S("2024-01-01T00:00:00Z"), updated_at |-> S("2024-06-01T00:00:00Z"),
       default_branch |-> S("main"), homepage |-> Null,
       open_issues_count |-> N(5), watchers_count |-> N(50),
       has_wiki |-> S("true"), has_discussions |-> S("false"),
       owner |-> Obj([login |-> S("owner"), avatar_url |-> S("https://a/u"),
                      type |-> S("User")])])
\* No topics, a null license, another default branch.
RepoBodySparse ==
  Obj([name |-> S("repo"), license |-> Null, default_branch |-> S("dev"),
       owner |-> Obj([login |-> S("owner")])])
\* An object that lacks the fields the tools read.
RepoBodyEmpty == Obj([x \in {} |-> Null])
RepoBodies == {RepoBodyFull, RepoBodySparse, RepoBodyEmpty, Null, Malformed}

RepoResponses ==
  {Response(s, Headers(r, Null, Null), Null) : s \in ErrorStatuses, r \in RemainingValues}
  \cup {Response(403, Headers(r, x, Null), Null) : r \in RemainingValues, x \in ResetValues}
  \cup {Response(s, NoHeaders, b) : s \in OkStatuses, b \in RepoBodies}
ThrownByFetch == {NetworkError, Err("Error", "Network error"), NonError}
RepoUpstreams ==
  {Answers(r) : r \in RepoResponses} \cup {Fails(e) : e \in ThrownByFetch} \cup {Silent}

\* The release list, GET /repos/{owner}/{repo}/releases.
ReleaseOne ==
  Obj([tag_name |-> S("v1.0.0"), name |-> S("First"), body |-> Null,
       published_at |-> S("2024-02-01T00:00:00Z"), prerelease |-> S("false"),
       draft |-> S("false"), html_url |-> S("https://github.com/owner/repo/releases/1")])
ReleaseBodies ==
  {Arr(<<>>), Arr(<<ReleaseOne>>), Arr(<<ReleaseOne, Obj([tag_name |-> S("v0.9.0")])>>),
   Arr(<<Null>>), Obj([message |-> S("Moved")]), Null, Malformed}
\* Link headers: a next page, a last page only, a next page whose URL ends
\* in per_page, a next page without a page number.
LinkNext == Cs(<<"<url?", "per_", "page=", "5", "&", "page=", "2", ">; ", RelNext>>)
LinkLast == Cs(<<"<url?", "page=", "4", "2", ">; ", RelLast>>)
LinkNextPerPage == Cs(<<"<url?", "page=", "3", "&", "per_", "page=", "5", ">; ", RelNext>>)
LinkNextCursor == Cs(<<"<url?", "after=", "x", ">; ", RelNext, ", ",
                       "<url?", "page=", "9", ">; ", RelLast>>)
\* A last page whose URL ends in per_page.
LinkLastPerPage == Cs(<<"<url?", "page=", "7", "&", "per_", "page=", "1", ">; ", RelLast>>)
LinkValues == {Null, LinkNext, LinkLast, LinkNextPerPage, LinkNextCursor}

ReleaseResponses ==
  {Response(s, NoHeaders, Null) : s \in {403, 404, 500}}
  \cup {Response(s, Headers(Cs(<<"0">>), x, Null), Null) :
          s \in {403, 404, 500},
          x \in {Null, Cs(<<"1", "7">>), Cs(<<"s", "o", "o", "n">>)}}
  \cup {Response(200, Headers(Null, Null, l), b) :
          l \in LinkValues, b \in {Arr(<<>>), Arr(<<ReleaseOne>>)}}
  \cup {Response(200, NoHeaders, b) : b \in ReleaseBodies}
ReleaseUpstreams ==
  {Answers(r) : r \in ReleaseResponses} \cup {Fails(e) : e \in ThrownByFetch} \cup {Silent}
GoodLimits == {Undefined, N(MinLimit), N(DefaultLimit), N(MaxLimit)}
BadLimits == {N(MinLimit - 1), N(MaxLimit + 1), N(-1)}

\* The default-branch lookup of extractKeyFiles.
RepoBodyNoBranchName ==
  Obj([name |-> S("repo"), default_branch |-> S("")])
BranchFound ==
  {Answers(Response(s, NoHeaders, b)) :
     s \in OkStatuses, b \in {RepoBodyFull, RepoBodySparse, RepoBodyEmpty}}
BranchNotFound ==
  {Answers(Response(s, Headers(r, Null, Null), Null)) :
     s \in ErrorStatuses \cup {403}, r \in {Null, Cs(<<"0">>)}}
  \cup {Answers(Response(200, NoHeaders, b)) : b \in {Null, Malformed, RepoBodyNoBranchName}}
  \cup {Fails(e) : e \in ThrownByFetch} \cup {Silent}

\* The raw files.  What fetch rejects with carries the message the runtime
\* gives it ("fetch failed", "This operation was aborted", "terminated"),
\* never an empty one and never the text fetchRawFile writes for a 404.
FileFetched == Answers(Response(200, NoHeaders, S("# Title")))
FileUpstreams ==
  {FileFetched,
   Answers(Response(200, NoHeaders, S(""))),
   Answers(Response(200, NoHeaders, Malformed)),
   Answers(Response(404, NoHeaders, Null)),
   Answers(Response(403, Headers(Cs(<<"0">>), Null, Null), Null)),
   Answers(Response(500, NoHeaders, Null)),
   Silent}
  \cup {Fails(e) : e \in ThrownByFetch}
PathArgs ==
  {Undefined, Arr(<<>>), Arr(<<"LICENSE">>), Arr(<<"README.md", "docs/a.md">>)}
PathCount(paths) ==
  IF paths = Undefined \/ Len(paths.v) = 0 THEN Len(DEFAULT_PATHS) ELSE Len(paths.v)
\* What n file fetches meet: the same thing each, one of them another
\* thing than the rest, or each its own thing.
FileUpstreamMix ==
  <<Answers(Response(404, NoHeaders, Null)), Fails(NetworkError), Silent,
    Answers(Response(500, NoHeaders, Null))>>
FileUpstreamSeqs(n) ==
  {[i \in 1..n |-> IF i = j THEN a ELSE FileFetched] : j \in 1..n, a \in FileUpstreams}
  \cup {[i \in 1..n |-> a] : a \in FileUpstreams}
  \cup {[i \in 1..n |-> FileUpstreamMix[i]]}
\* The lookups that the file fetches are varied under: a repository that
\* names its branch, and one that names none.
BranchFoundFew ==
  {Answers(Response(200, NoHeaders, b)) : b \in {RepoBodySparse, RepoBodyEmpty}}

\* The commit list, the pull-request list, the contributor list.
CommitFull ==
  Obj([sha |-> S("abc"),
       commit |-> Obj([message |-> S("fix"),
                       author |-> Obj([date |-> S("2024-05-01T00:00:00Z")])])])
CommitNoAuthor == Obj([sha |-> S("abc"), commit |-> Obj([message |-> S("fix")])])
CommitBare == Obj([sha |-> S("abc")])
ListOk(link, body) == Answers(Response(200, Headers(Null, Null, link), body))
CommitUpstreams ==
  {ListOk(Null, b) :
     b \in {Arr(<<CommitFull>>), Arr(<<CommitNoAuthor>>), Arr(<<CommitBare>>),
            Arr(<<Null>>), Arr(<<>>), Obj([message |-> S("x")]), Null, Malformed}}
  \cup {Answers(Response(409, NoHeaders, Null)), Fails(NetworkError), Silent}
CountUpstreams ==
  {ListOk(l, b) : l \in {Null, LinkLast, LinkNext, LinkLastPerPage},
                  b \in {Arr(<<>>), Arr(<<Obj([id |-> N(1)])>>), Null, Malformed}}
  \cup {ListOk(Null, Obj([message |-> S("x")])),
        Answers(Response(404, NoHeaders, Null)),
        Answers(Response(403, Headers(Cs(<<"0">>), Null, Null), Null)),
        Fails(NetworkError), Silent}
RepoFound == Answers(Response(200, NoHeaders, RepoBodyFull))
ActivityRepoUpstreams ==
  BranchFound \cup BranchNotFound \cup {Answers(Response(200, NoHeaders, Arr(<<>>)))}
\* What the four fetches meet: one of them varies, the others answer well
\* or do not answer at all.
ActivityUpstreams ==
  {<<r, ListOk(Null, Arr(<<CommitFull>>)), ListOk(LinkLast, Arr(<<>>)),
     ListOk(Null, Arr(<<Obj([id |-> N(1)])>>))>> : r \in ActivityRepoUpstreams}
  \cup {<<RepoFound, c, ListOk(Null, Arr(<<>>)), ListOk(LinkLast, Arr(<<>>))>> :
          c \in CommitUpstreams}
  \cup {<<RepoFound, ListOk(Null, Arr(<<CommitFull>>)), n, ListOk(LinkLast, Arr(<<>>))>> :
          n \in CountUpstreams}
  \cup {<<RepoFound, ListOk(Null, Arr(<<>>)), ListOk(Null, Arr(<<>>)), n>> :
          n \in CountUpstreams}
  \cup {<<r, x, x, x>> : r \in {RepoFound, Silent, Fails(NetworkError)},
                         x \in {Silent, Fails(NetworkError),
                                Answers(Response(500, NoHeaders, Null))}}

\* The argument objects that reach the handlers: repo_url missing, not a
\* string, no URL, another host, a GitHub URL without a repository, a
\* repository URL; limit and paths missing, of another type, out of range,
\* well-formed.
NoFields == [x \in {} |-> Null]
UrlFields ==
  {NoFields, [repo_url |-> N(42)]}
  \cup {[repo_url |-> Cs(u)] :
          u \in {FirstUrl, <<"not-a-valid-url">>,
                 <<"https:", "//", "gitlab.com", "/", "a", "/", "b">>,
                 <<"https:", "//", "github.com", "/", "a">>}}
LimitFields ==
  {[limit |-> l] :
     l \in {N(MinLimit - 1), N(MaxLimit + 1), N(DefaultLimit), N(MaxLimit), Half(2),
            Half(MaxLimit), S("5")}}
PathFields ==
  {[paths |-> q] : q \in {S("LICENSE"), Arr(<<N(1)>>), Arr(<<S("LICENSE")>>), Arr(<<>>)}}
ToolArgs(name) ==
  {Undefined, S("repo_url")}
  \cup {Obj(u) : u \in UrlFields}
  \cup (IF name = "release_notes"
        THEN {Obj(u @@ l) : u \in UrlFields, l \in LimitFields} ELSE {})
  \cup (IF name = "extract_key_files"
        THEN {Obj(u @@ q) : u \in UrlFields, q \in PathFields} ELSE {})
  \cup (IF name \notin {"release_notes", "extract_key_files"}
        THEN {Obj([repo_url |-> Cs(FirstUrl), limit |-> N(MaxLimit + 1)])} ELSE {})
UnknownTool == "no_such_tool"
\* What the fetches of a call that reaches its tool meet: answers, no
\* answers, or 403 with the quota used up.
AllAnswer ==
  [repo |-> RepoFound,
   releases |-> ListOk(LinkNext, Arr(<<ReleaseOne>>)),
   files |-> [branch |-> RepoFound, files |-> [i \in 1..Len(DEFAULT_PATHS) |-> FileFetched]],
   four |-> <<RepoFound, ListOk(Null, Arr(<<CommitFull>>)), ListOk(LinkLast, Arr(<<>>)),
              ListOk(Null, Arr(<<>>))>>]
AllMeet(up) ==
  [repo |-> up, releases |-> up,
   files |-> [branch |-> up, files |-> [i \in 1..Len(DEFAULT_PATHS) |-> up]],
   four |-> <<up, up, up, up>>]
HandlerUpstreams ==
  {AllAnswer, AllMeet(Silent), AllMeet(Fails(NetworkError)),
   AllMeet(Answers(Response(403, Headers(Cs(<<"0">>), Cs(<<"1", "7">>), Null), Null)))}
\* A call reaches its tool only when its arguments pass the schema; the
\* calls that do not are listed once, with no upstream to meet.
ReachesTool(name, args) == name \in ToolNames /\ ToolSchema(name, args).success

RpcMethods == {"initialize", "tools/list", "tools/call", "resources/list"}

(***************************************************************************)
(* State.                                                                  *)
(***************************************************************************)
VARIABLES
  now,              \* Date.now()
  lastRequestTime,  \* overview.ts line 12
  outbound,         \* Spec: the outbound calls the last call dispatched
  req,              \* Spec: the last call: its tool, arguments and upstream
  reply,            \* Spec: what the last call settled with
  toolInvoked,      \* Spec: whether the last call entered a tool function
  task,             \* SpecRL: the calls, each at its suspension point
  sessions,         \* SpecHttp: the keys of the sessions map (http.ts)
  minted,           \* SpecHttp: how many ids randomUUID has generated
  http              \* SpecHttp: the HTTP requests, each at its suspension point

vars ==
  <<now, lastRequestTime, outbound, req, reply, toolInvoked, task, sessions, minted, http>>
\* The state of the session-tracking transport.
HttpVars == <<sessions, minted, http>>

NoCall == [tool |-> "none"]
NoReply == [kind |-> "none"]
Calls == 1..NumCalls
\* wakeAt is the time of the throttle timer of a sleeping call, at and
\* abortAt the dispatch time and the time of the abort timer of a call in
\* flight, result what a finished call resolved to.
Idle == [pc |-> "idle", tool |-> "none", wakeAt |-> 0, at |-> 0, abortAt |-> 0,
         result |-> NoReply]
\* The HTTP requests that are under way at the same time in SpecHttp.
Requests == 1..NumRequests
\* header is the Mcp-Session-Id of the request (Undefined when absent),
\* session the key of the session it is handled by, answer who answered
\* it: this module with a status, or the transport of the session; size is
\* the number of sessions that a health check reports.
NoRequest == [pc |-> "idle", path |-> "/mcp", method |-> "none", header |-> Undefined,
              session |-> 0, answer |-> "none", size |-> 0]

Init ==
  /\ now = StartTime
  /\ lastRequestTime = 0
  /\ outbound = <<>>
  /\ req = NoCall
  /\ reply = NoReply
  /\ toolInvoked = FALSE
  /\ task = [i \in Calls |-> Idle]
  /\ sessions = {}
  /\ minted = 0
  /\ http = [r \in Requests |-> NoRequest]

\* Time passes between calls.
Tick ==
  /\ req = NoCall
  /\ now < MaxTime
  /\ now' = now + 1
  /\ UNCHANGED <<lastRequestTime, outbound, req, reply, toolInvoked, task, HttpVars>>

\* The state a call starts in, and the state it leaves.
Start == [now |-> now, last |-> lastRequestTime, out |-> <<>>]
Settle(r, run) ==
  /\ req = NoCall
  /\ now <= LastStart
  /\ now' = run.st.now
  /\ lastRequestTime' = run.st.last
  /\ outbound' = run.st.out
  /\ req' = r
  /\ reply' = run.settled
  /\ toolInvoked' = run.invoked
  /\ UNCHANGED <<task, HttpVars>>

\* A tool called directly.
Invoked(run) == [st |-> run.st, settled |-> run.settled, invoked |-> TRUE]

RepoOverviewCall ==
  \/ \E url \in BadUrls :
       Settle([tool |-> "repo_overview", repo_url |-> url, up |-> Silent],
              Invoked(repoOverview(Start, url, Silent)))
  \/ \E url \in GoodUrls, up \in RepoUpstreams :
       Settle([tool |-> "repo_overview", repo_url |-> url, up |-> up],
              Invoked(repoOverview(Start, url, up)))

ReleaseNotesCall ==
  \/ \E url \in BadUrls, limit \in GoodLimits \cup BadLimits :
       Settle([tool |-> "release_notes", repo_url |-> url, limit |-> limit, up |-> Silent],
              Invoked(releaseNotes(Start, url, limit, Silent)))
  \/ \E url \in GoodUrls, limit \in BadLimits :
       Settle([tool |-> "release_notes", repo_url |-> url, limit |-> limit, up |-> Silent],
              Invoked(releaseNotes(Start, url, limit, Silent)))
  \/ \E url \in GoodUrls, limit \in GoodLimits, up \in ReleaseUpstreams :
       /\ req = NoCall
       /\ limit = Undefined \/ url = FirstUrl
       /\ Settle([tool |-> "release_notes", repo_url |-> url, limit |-> limit, up |-> up],
                 Invoked(releaseNotes(Start, url, limit, up)))

ExtractKeyFilesCall ==
  \/ \E url \in BadUrls, paths \in PathArgs :
       LET ups == [branch |-> Silent, files |-> [i \in 1..PathCount(paths) |-> Silent]] IN
       Settle([tool |-> "extract_key_files", repo_url |-> url, paths |-> paths, up |-> ups],
              Invoked(extractKeyFiles(Start, url, paths, ups)))
  \/ \E url \in GoodUrls, paths \in PathArgs, branch \in BranchNotFound :
       LET ups == [branch |-> branch, files |-> [i \in 1..PathCount(paths) |-> FileFetched]] IN
       Settle([tool |-> "extract_key_files", repo_url |-> url, paths |-> paths, up |-> ups],
              Invoked(extractKeyFiles(Start, url, paths, ups)))
  \/ \E url \in GoodUrls, paths \in PathArgs, branch \in BranchFound :
       LET ups == [branch |-> branch, files |-> [i \in 1..PathCount(paths) |-> FileFetched]] IN
       Settle([tool |-> "extract_key_files", repo_url |-> url, paths |-> paths, up |-> ups],
              Invoked(extractKeyFiles(Start, url, paths, ups)))
  \/ \E paths \in PathArgs \ {Arr(<<>>)}, branch \in BranchFoundFew :
       \E files \in FileUpstreamSeqs(PathCount(paths)) :
         LET ups == [branch |-> branch, files |-> files]
             url == FirstUrl
         IN
         Settle([tool |-> "extract_key_files", repo_url |-> url, paths |-> paths, up |-> ups],
                Invoked(extractKeyFiles(Start, url, paths, ups)))

ActivitySnapshotCall ==
  \/ \E url \in BadUrls :
       Settle([tool |-> "activity_snapshot", repo_url |-> url,
               up |-> <<Silent, Silent, Silent, Silent>>],
              Invoked(activitySnapshot(Start, url, <<Silent, Silent, Silent, Silent>>)))
  \/ \E url \in GoodUrls, ups \in ActivityUpstreams :
       Settle([tool |-> "activity_snapshot", repo_url |-> url, up |-> ups],
              Invoked(activitySnapshot(Start, url, ups)))

\* A CallTool request arrives at the handler of createServer.
CallToolRequest ==
  \E name \in ToolNames \cup {UnknownTool} :
    \E args \in ToolArgs(name), ups \in HandlerUpstreams :
      /\ req = NoCall
      /\ ReachesTool(name, args) \/ ups = AllAnswer
      /\ Settle([tool |-> "CallTool", name |-> name, args |-> args, up |-> ups],
                CallToolHandler(Start, name, args, ups))

\* A JSON-RPC request arrives at handleJsonRpcRequest.
JsonRpcRequest ==
  \/ \E method \in RpcMethods :
       LET request == [jsonrpc |-> "2.0", id |-> 1, method |-> method,
                       params |-> Undefined]
       IN  Settle([tool |-> "JsonRpc", request |-> request, up |-> AllAnswer],
                  handleJsonRpcRequest(Start, request, AllAnswer))
  \/ \E name \in ToolNames \cup {UnknownTool} :
       \E args \in ToolArgs(name), ups \in HandlerUpstreams :
         LET request == [jsonrpc |-> "2.0", id |-> 1, method |-> "tools/call",
                         params |-> [name |-> name, arguments |-> args]]
         IN  /\ req = NoCall
             /\ ReachesTool(name, args) \/ ups = AllAnswer
             /\ Settle([tool |-> "JsonRpc", request |-> request, up |-> ups],
                       handleJsonRpcRequest(Start, request, ups))

\* The caller takes the reply; the next call can start.
Deliver ==
  /\ req # NoCall
  /\ req' = NoCall
  /\ reply' = NoReply
  /\ outbound' = <<>>
  /\ toolInvoked' = FALSE
  /\ UNCHANGED <<now, lastRequestTime, task, HttpVars>>

Next ==
  \/ Tick
  \/ Deliver
  \/ RepoOverviewCall
  \/ ReleaseNotesCall
  \/ ExtractKeyFilesCall
  \/ ActivitySnapshotCall
  \/ CallToolRequest
  \/ JsonRpcRequest

Spec == Init /\ [][Next]_vars

(***************************************************************************)
(* SpecRL: calls of repoOverview and releaseNotes that run at the same     *)
(* time, one step per suspension point of rateLimitedFetch.  Each call is  *)
(* for the repository of FirstUrl, releaseNotes with its default limit.    *)
(***************************************************************************)
SpecVars == <<outbound, req, reply, toolInvoked, HttpVars>>
\* The tool that call i is a call of.
ToolOf(i) == IF i % 2 = 0 THEN "release_notes" ELSE "repo_overview"

\* Lines 25-39 of overview.ts: lastRequestTime is written, the abort timer
\* is set and the outbound call is dispatched.
Dispatch(i, t) ==
  /\ lastRequestTime' = now
  /\ task' = [task EXCEPT ![i] = [t EXCEPT !.pc = "inflight", !.wakeAt = 0, !.at = now,
                                            !.abortAt = now + RequestTimeoutMs]]

\* Lines 14-23: a call starts and runs up to its first await: the throttle
\* timer when the last dispatch is less than requestDelayMs ago, the
\* outbound call otherwise.  The calls are numbered in the order they start.
CallStart(i) ==
  /\ task[i].pc = "idle"
  /\ \A j \in 1..(i - 1) : task[j].pc # "idle"
  /\ now <= LastStart
  /\ LET t == [task[i] EXCEPT !.tool = ToolOf(i)] IN
     IF ThrottleDelay(now, lastRequestTime) > 0
     THEN /\ task' = [task EXCEPT ![i] =
                        [t EXCEPT !.pc = "sleeping",
                                  !.wakeAt = now + ThrottleDelay(now, lastRequestTime)]]
          /\ UNCHANGED lastRequestTime
     ELSE Dispatch(i, t)
  /\ UNCHANGED <<now, SpecVars>>

\* Line 22: the throttle timer fires, at its time or later.
Wake(i) ==
  /\ task[i].pc = "sleeping"
  /\ now >= task[i].wakeAt
  /\ Dispatch(i, task[i])
  /\ UNCHANGED <<now, SpecVars>>

\* The envelope that the tool of call i resolves to when its
\* rateLimitedFetch completes.
ToolSettles(tool, completion) ==
  IF tool = "repo_overview"
  THEN RepoOverviewCatch(RepoOverviewTry(parseRepoUrl(FirstUrl), completion))
  ELSE ReleaseNotesCatch(ReleaseNotesTry(parseRepoUrl(FirstUrl), DefaultLimit, completion))

\* Finish as it would be if lastRequestTime were written when the outbound
\* call completes.
FinishWritesTime(i, completion) ==
  /\ task' = [task EXCEPT ![i] =
                [Idle EXCEPT !.pc = "done", !.tool = task[i].tool,
                             !.result = ToolSettles(task[i].tool, completion)]]
  /\ lastRequestTime' = now
  /\ UNCHANGED <<now, SpecVars>>

Finish(i, completion) ==
  /\ task' = [task EXCEPT ![i] =
                [Idle EXCEPT !.pc = "done", !.tool = task[i].tool,
                             !.result = ToolSettles(task[i].tool, completion)]]
  /\ UNCHANGED <<now, lastRequestTime, SpecVars>>

\* What the upstream answers with in SpecRL.
AnswersTo(tool) ==
  IF tool = "repo_overview" THEN {Response(200, NoHeaders, RepoBodyFull)}
  ELSE {Response(404, NoHeaders, Null)}

\* Lines 40-49: the upstream answers before the abort timer is due; the
\* finally block clears the timer.
Respond(i) ==
  /\ task[i].pc = "inflight"
  /\ now < task[i].abortAt
  /\ \E response \in AnswersTo(task[i].tool) : Finish(i, Return(response))

\* Lines 40-49: the outbound call fails before the abort timer is due.
Reject(i) ==
  /\ task[i].pc = "inflight"
  /\ now < task[i].abortAt
  /\ Finish(i, Throw(NetworkError))

\* Line 38: the abort timer fires, at its time or later, and the
\* outbound call rejects with an AbortError.
Abort(i) ==
  /\ task[i].pc = "inflight"
  /\ now >= task[i].abortAt
  /\ Finish(i, Throw(AbortError))

\* Time passes while a call is to start or under way.
TickRL ==
  /\ now < MaxTime
  /\ \E i \in Calls : task[i].pc # "done"
  /\ now' = now + 1
  /\ UNCHANGED <<lastRequestTime, task, SpecVars>>

NextRL ==
  \/ TickRL
  \/ \E i \in Calls : CallStart(i)
  \/ \E i \in Calls : Wake(i)
  \/ \E i \in Calls : Respond(i)
  \/ \E i \in Calls : Reject(i)
  \/ \E i \in Calls : Abort(i)

SpecRL == Init /\ [][NextRL]_vars

\* The event loop runs the callback of a timer that is due: the timers
\* phase of every iteration comes before the phase that handles I/O.
SpecRLFair ==
  /\ SpecRL
  /\ \A i \in Calls : WF_vars(Abort(i)) /\ WF_vars(Wake(i))

(***************************************************************************)
(* SpecHttp: the session-tracking HTTP transport (transport/http.ts).      *)
(* Requests on /mcp and /health that are handled at the same time, one     *)
(* step per suspension point of handleMcpRequest: the connect of a new     *)
(* session's server and the transport's handling of the request.  The      *)
(* transport is the SDK's: it answers the requests it is given and may     *)
(* close at any time.                                                      *)
(***************************************************************************)
HttpMethods == {"POST", "GET", "DELETE", "OPTIONS", "PUT"}
\* An id that randomUUID never generates here: what a client made up.
ForeignId == MaxSessions + 1
\* The values of the Mcp-Session-Id header: absent, an id that was
\* generated, a made-up id.
SessionHeaders == {Undefined} \cup {N(id) : id \in 1..minted} \cup {N(ForeignId)}
\* sessions.get(sessionId), as a test: the header names a session.
KnownSession(header) == header # Undefined /\ header.v \in sessions

\* Lines 434-442 and 509-512: the preflight, and a method that is none of
\* POST, GET and DELETE.
McpOther(r, method) ==
  /\ method \in {"OPTIONS", "PUT"}
  /\ http' = [http EXCEPT ![r] =
                [NoRequest EXCEPT !.pc = "done", !.method = method,
                                  !.answer = IF method = "OPTIONS" THEN "204" ELSE "405"]]
  /\ UNCHANGED <<sessions, minted>>

\* Lines 449-463: a POST that names a session is given to its transport;
\* for another POST an id is generated and the new server connects.
McpPost(r, header) ==
  /\ IF KnownSession(header)
     THEN /\ http' = [http EXCEPT ![r] =
                        [NoRequest EXCEPT !.pc = "handling", !.method = "POST",
                                          !.header = header, !.session = header.v]]
          /\ UNCHANGED minted
     ELSE /\ minted < MaxSessions
          /\ minted' = minted + 1
          /\ http' = [http EXCEPT ![r] =
                        [NoRequest EXCEPT !.pc = "connecting", !.method = "POST",
                                          !.header = header, !.session = minted + 1]]
  /\ UNCHANGED sessions

\* Lines 476-507: a GET or a DELETE is answered 400 without the header and
\* 404 when the header names no session, and is given to the transport of
\* the session it names.
McpGetOrDelete(r, method, header) ==
  /\ method \in {"GET", "DELETE"}
  /\ http' = [http EXCEPT ![r] =
                IF header = Undefined
                THEN [NoRequest EXCEPT !.pc = "done", !.method = method, !.answer = "400"]
                ELSE IF ~KnownSession(header)
                THEN [NoRequest EXCEPT !.pc = "done", !.method = method,
                                       !.header = header, !.answer = "404"]
                ELSE [NoRequest EXCEPT !.pc = "handling", !.method = method,
                                       !.header = header, !.session = header.v]]
  /\ UNCHANGED <<sessions, minted>>

\* A request on /mcp arrives and handleMcpRequest runs up to its first
\* await.
McpRequest(r) ==
  /\ http[r].pc = "idle"
  /\ \E method \in HttpMethods, header \in SessionHeaders :
       \/ McpOther(r, method)
       \/ method = "POST" /\ McpPost(r, header)
       \/ McpGetOrDelete(r, method, header)
  /\ UNCHANGED <<now, lastRequestTime, task, outbound, req, reply, toolInvoked>>

\* Lines 465-475: the server has connected; the session is put into the
\* map under the generated id and the transport's onclose is set.
McpConnected(r) ==
  /\ http[r].pc = "connecting"
  /\ sessions' = sessions \cup {http[r].session}
  /\ http' = [http EXCEPT ![r].pc = "handling"]
  /\ UNCHANGED <<minted, now, lastRequestTime, task, outbound, req, reply, toolInvoked>>

\* McpHandled as it would be if a DELETE left the session in the map.
McpHandledKeepsSession(r) ==
  /\ http[r].pc = "handling"
  /\ http' = [http EXCEPT ![r].pc = "done", ![r].answer = "transport", ![r].session = 0]
  /\ UNCHANGED <<sessions, minted, now, lastRequestTime, task, outbound, req, reply,
                 toolInvoked>>

\* Lines 475, 491 and 507-508: transport.handleRequest has resolved; after
\* a DELETE the session is deleted from the map.
McpHandled(r) ==
  /\ http[r].pc = "handling"
  /\ http' = [http EXCEPT ![r].pc = "done", ![r].answer = "transport", ![r].session = 0]
  /\ sessions' = IF http[r].method = "DELETE" THEN sessions \ {http[r].header.v}
                 ELSE sessions
  /\ UNCHANGED <<minted, now, lastRequestTime, task, outbound, req, reply, toolInvoked>>

\* Lines 469-471: the transport of a session closes and its onclose
\* deletes the session.  The onclose of a transport whose session is no
\* longer in the map deletes nothing.
TransportClose(id) ==
  /\ id \in sessions
  /\ sessions' = sessions \ {id}
  /\ UNCHANGED <<minted, http, now, lastRequestTime, task, outbound, req, reply,
                 toolInvoked>>

\* Lines 515-526: a request on /health is answered with sessions.size.
HealthRequest(r) ==
  /\ http[r].pc = "idle"
  /\ http' = [http EXCEPT ![r] =
                [NoRequest EXCEPT !.pc = "done", !.path = "/health", !.method = "GET",
                                  !.answer = "200", !.size = Cardinality(sessions)]]
  /\ UNCHANGED <<sessions, minted, now, lastRequestTime, task, outbound, req, reply,
                 toolInvoked>>

\* The response has been sent; the next request can arrive.
HttpDone(r) ==
  /\ http[r].pc = "done"
  /\ http' = [http EXCEPT ![r] = NoRequest]
  /\ UNCHANGED <<sessions, minted, now, lastRequestTime, task, outbound, req, reply,
                 toolInvoked>>

NextHttp ==
  \/ \E r \in Requests : McpRequest(r)
  \/ \E r \in Requests : McpConnected(r)
  \/ \E r \in Requests : McpHandled(r)
  \/ \E id \in 1..MaxSessions : TransportClose(id)
  \/ \E r \in Requests : HealthRequest(r)
  \/ \E r \in Requests : HttpDone(r)

SpecHttp == Init /\ [][NextHttp]_vars

(***************************************************************************)
(* Properties.                                                             *)
(***************************************************************************)
\* The last call was a direct call of one of the four tools.
ToolCalled == req.tool \in ToolNames
\* The last call was a tool call through a handler, and the tool it names.
HandlerCalled ==
  \/ req.tool = "CallTool"
  \/ req.tool = "JsonRpc" /\ req.request.method = "tools/call"
       /\ req.request.params # Undefined
CalledName == IF req.tool = "CallTool" THEN req.name ELSE req.request.params.name
CalledArgs == IF req.tool = "CallTool" THEN req.args ELSE req.request.params.arguments

\* e is an error envelope with this code.
IsError(e, code) ==
  /\ DOMAIN e = {"ok", "error"}
  /\ e.ok = FALSE
  /\ DOMAIN e.error = {"code", "message", "details"}
  /\ e.error.code = code
IsSuccess(e) == DOMAIN e = {"ok", "data", "meta"} /\ e.ok = TRUE
IsEnvelope(e) == IsSuccess(e) \/ \E code \in ErrorCode : IsError(e, code)
\* d is the details mapping with exactly this entry.
HasDetail(e, f, v) == f \in DOMAIN e.error.details /\ e.error.details[f] = v

\* The reply of a handler carries an envelope: the text of its content.
CarriesEnvelope ==
  /\ reply.kind = "return"
  /\ IF req.tool = "CallTool" THEN "content" \in DOMAIN reply.value
     ELSE "result" \in DOMAIN reply.value /\ "content" \in DOMAIN reply.value.result
CarriedEnvelope ==
  IF req.tool = "CallTool" THEN reply.value.content[1].text.json
  ELSE reply.value.result.content[1].text.json

\* An invocation is in flight from its dispatch until it settles.
InFlight(i) == task[i].pc = "inflight"

\* C1: the outbound calls of rateLimitedFetch invocations that overlap in
\* time are dispatched at times that are pairwise at least requestDelayMs
\* apart.  Two invocations that are in flight together overlap.
C1_OverlappingCallsSpaced ==
  \A i, j \in Calls :
    (i # j /\ InFlight(i) /\ InFlight(j))
      => \/ task[i].at - task[j].at >= RequestDelayMs
         \/ task[j].at - task[i].at >= RequestDelayMs

\* One step that takes a call whose URL parseRepoUrl returns null for.
C2_Step ==
  (req = NoCall /\ req' # NoCall /\ req'.tool \in ToolNames
     /\ parseRepoUrl(req'.repo_url) = Null)
  => /\ reply'.kind = "return"
     /\ IsError(reply'.value, "INVALID_INPUT")
     /\ HasDetail(reply'.value, "provided_url", Join(req'.repo_url))
     /\ outbound' = <<>>
     /\ lastRequestTime' = lastRequestTime
     /\ now' = now

\* C2: a tool called with a URL that parseRepoUrl returns null for resolves
\* to INVALID_INPUT with details.provided_url the input, dispatches no
\* outbound call and leaves lastRequestTime (and the clock) as they were.
C2_InvalidUrlRejected == [][C2_Step]_vars

\* Each of the four tools has rejected a URL after an earlier call had
\* dispatched.
C2_Witness ==
  /\ ToolCalled
  /\ req.tool = "activity_snapshot"
  /\ req.repo_url = <<"https:", "//", "github.com.evil.com", "/", "a", "/", "b">>
  /\ lastRequestTime > 0
  /\ reply.kind = "return" /\ IsError(reply.value, "INVALID_INPUT")
  /\ outbound = <<>>

\* C3: each of the four tools resolves to one envelope, whatever the input
\* and whatever the upstream does; it never rejects.
C3_ToolsResolve ==
  ToolCalled => reply.kind = "return" /\ IsEnvelope(reply.value)
\* activitySnapshot has met a commit list whose element lacks the fields
\* it reads, and has resolved to an envelope.
C3_Witness ==
  /\ req.tool = "activity_snapshot"
  /\ req.repo_url \in GoodUrls
  /\ req.up[2] = ListOk(Null, Arr(<<CommitBare>>))
  /\ reply.kind = "return" /\ IsError(reply.value, "INTERNAL_ERROR")

\* C4: in both handlers a call that names an unknown tool yields an
\* INVALID_INPUT envelope, and no call leaves a handler as an exception.
C4_UnknownToolInvalidInput ==
  HandlerCalled =>
    /\ reply.kind = "return"
    /\ CalledName \notin ToolNames
         => CarriesEnvelope /\ IsError(CarriedEnvelope, "INVALID_INPUT")

\* The argument object of a call fails the schema of the tool: it is no
\* object, repo_url is missing, no string, no URL or a URL of another host
\* than github.com, limit is no integer from 1 to 100, paths is no array
\* of strings.
IsGitHubUrl(u) ==
  /\ Len(u) >= 3
  /\ u[1] \in {"https:", "http:"}
  /\ u[2] = "//"
  /\ u[3] \in {"github.com", "www.github.com"}
FailsSchema(name, args) ==
  \/ args = Undefined
  \/ args.t # "obj"
  \/ "repo_url" \notin DOMAIN args.v
  \/ args.v.repo_url.t # "chars"
  \/ ~IsGitHubUrl(args.v.repo_url.v)
  \/ /\ name = "release_notes"
     /\ "limit" \in DOMAIN args.v
     /\ ~(args.v.limit.t = "num" /\ args.v.limit.v \in 1..100)
  \/ /\ name = "extract_key_files"
     /\ "paths" \in DOMAIN args.v
     /\ ~(args.v.paths.t = "arr"
          /\ \A k \in 1..Len(args.v.paths.v) : args.v.paths.v[k].t = "str")

\* C5: in both handlers, arguments of a known tool that fail its schema
\* yield an INVALID_INPUT envelope whose details list the violations; the
\* tool is not invoked and no outbound call is dispatched.
C5_SchemaFailureRejected ==
  (HandlerCalled /\ CalledName \in ToolNames /\ FailsSchema(CalledName, CalledArgs))
  => /\ CarriesEnvelope
     /\ IsError(CarriedEnvelope, "INVALID_INPUT")
     /\ "errors" \in DOMAIN CarriedEnvelope.error.details
     /\ Len(CarriedEnvelope.error.details.errors) > 0
     /\ ~toolInvoked
     /\ outbound = <<>>
\* handleJsonRpcRequest has rejected a release_notes call for a repository
\* URL with a limit of 101, after an earlier call had dispatched.
C5_Witness ==
  /\ req.tool = "JsonRpc"
  /\ HandlerCalled
  /\ CalledName = "release_notes"
  /\ CalledArgs = Obj([repo_url |-> Cs(FirstUrl), limit |-> N(101)])
  /\ CarriesEnvelope /\ IsError(CarriedEnvelope, "INVALID_INPUT")
  /\ ~toolInvoked
  /\ lastRequestTime > 0

\* The last call was repoOverview for a repository URL, and the upstream
\* answered.
OverviewAnswered ==
  /\ req.tool = "repo_overview"
  /\ parseRepoUrl(req.repo_url) # Null
  /\ req.up.kind = "response"
\* The x-ratelimit-remaining header of the answer is exactly "0".
QuotaUsedUp(response) == response.headers[HRemaining] = Cs(<<"0">>)
Is2xx(status) == status \in 200..299

\* C6: repoOverview classifies the answer by status: 404 is UPSTREAM_ERROR
\* with details.status 404; 403 with x-ratelimit-remaining "0" is
\* RATE_LIMITED; another 403 is UPSTREAM_ERROR "Access forbidden"; another
\* non-2xx status is UPSTREAM_ERROR with details.status; only 2xx is ok.
C6_StatusClassification ==
  OverviewAnswered =>
    LET status == req.up.response.status
        e == reply.value
    IN  /\ reply.kind = "return"
        /\ status = 404 => IsError(e, "UPSTREAM_ERROR") /\ HasDetail(e, "status", 404)
        /\ (status = 403 /\ QuotaUsedUp(req.up.response)) => IsError(e, "RATE_LIMITED")
        /\ (status = 403 /\ ~QuotaUsedUp(req.up.response))
             => IsError(e, "UPSTREAM_ERROR") /\ e.error.message = "Access forbidden"
        /\ (status \notin {403, 404} /\ ~Is2xx(status))
             => IsError(e, "UPSTREAM_ERROR") /\ HasDetail(e, "status", status)
        /\ e.ok => Is2xx(status)

\* The last call was repoOverview or releaseNotes for a repository URL
\* (and a limit in range), and the upstream answered 403.
Answered403 ==
  /\ req.tool \in {"repo_overview", "release_notes"}
  /\ parseRepoUrl(req.repo_url) # Null
  /\ req.tool = "release_notes" => req.limit \in GoodLimits
  /\ req.up.kind = "response"
  /\ req.up.response.status = 403
\* The characters of a header are the decimal digits of a number.
IsNumber(cs) == Len(cs) > 0 /\ \A k \in 1..Len(cs) : IsDigit(cs[k])

\* C7: 403 with x-ratelimit-remaining "0" is RATE_LIMITED, with
\* details.reset_at the time of the x-ratelimit-reset header (epoch
\* seconds, times 1000 ms) or null when the header is absent; 403 without
\* the zero-remaining header is UPSTREAM_ERROR.
C7_RateLimited ==
  Answered403 =>
    LET response == req.up.response
        reset == response.headers[HReset]
        e == reply.value
    IN  /\ reply.kind = "return"
        /\ ~QuotaUsedUp(response) => IsError(e, "UPSTREAM_ERROR")
        /\ QuotaUsedUp(response) =>
             /\ IsError(e, "RATE_LIMITED")
             /\ reset = Null => HasDetail(e, "reset_at", Null)
             /\ (reset # Null /\ IsNumber(reset.v))
                  => HasDetail(e, "reset_at",
                               [t |-> "iso", ms |-> DecimalValue(reset.v) * 1000])

\* What the fetch or the decoding of the body throws, given the upstream:
\* the error the fetch rejects with, the AbortError of the abort timer, or
\* the SyntaxError of a body that is no JSON.
OverviewThrows ==
  /\ req.tool = "repo_overview"
  /\ parseRepoUrl(req.repo_url) # Null
  /\ \/ req.up.kind = "silent"
     \/ req.up.kind = "error" /\ req.up.error.isError
     \/ req.up.kind = "response" /\ Is2xx(req.up.response.status)
          /\ req.up.response.body = Malformed
OverviewThrown ==
  CASE req.up.kind = "silent" -> AbortError
    [] req.up.kind = "error" -> req.up.error
    [] req.up.kind = "response" -> SyntaxError

\* C8: in repoOverview a thrown AbortError maps to TIMEOUT, every other
\* thrown Error to INTERNAL_ERROR with the message of the error and its
\* name in details.error_name.
C8_ThrownErrorMapped ==
  OverviewThrows =>
    /\ reply.kind = "return"
    /\ IF OverviewThrown.name = "AbortError"
       THEN IsError(reply.value, "TIMEOUT")
       ELSE /\ IsError(reply.value, "INTERNAL_ERROR")
            /\ reply.value.error.message = OverviewThrown.message
            /\ HasDetail(reply.value, "error_name", OverviewThrown.name)
\* repoOverview has met a body that is no JSON.
C8_Witness ==
  /\ OverviewThrows
  /\ req.up.kind = "response"
  /\ IsError(reply.value, "INTERNAL_ERROR")
  /\ HasDetail(reply.value, "error_name", "SyntaxError")

\* Call i is in flight and the upstream has not answered it within
\* requestTimeoutMs of its dispatch.
Unanswered(i) == InFlight(i) /\ now >= task[i].at + RequestTimeoutMs
\* Call i has returned the TIMEOUT envelope.
TimedOut(i) ==
  /\ task[i].pc = "done"
  /\ task[i].result.kind = "return"
  /\ IsError(task[i].result.value, "TIMEOUT")
  /\ HasDetail(task[i].result.value, "timeout_ms", RequestTimeoutMs)

\* C9: a call of repoOverview or releaseNotes whose outbound call the
\* upstream does not answer within requestTimeoutMs of its dispatch
\* eventually returns the TIMEOUT envelope, details.timeout_ms being
\* requestTimeoutMs.
C9_TimeoutReturned == \A i \in Calls : Unanswered(i) ~> TimedOut(i)
\* A call of releaseNotes has timed out while a call of repoOverview
\* that started with it was answered.
C9_Witness ==
  /\ TimedOut(2)
  /\ task[2].tool = "release_notes"
  /\ task[1].pc = "done" /\ task[1].result.value.ok

\* The default-branch lookup of the last extractKeyFiles call succeeded:
\* the upstream answered 2xx with a JSON object that names a branch or
\* names none (the branch is then "main").
LookupSucceeded ==
  /\ req.up.branch.kind = "response"
  /\ Is2xx(req.up.branch.response.status)
  /\ req.up.branch.response.body \notin {Null, Malformed}
  /\ req.up.branch.response.body.t = "obj"
  /\ "default_branch" \in DOMAIN req.up.branch.response.body.v
       => req.up.branch.response.body.v.default_branch \notin {S(""), Null}
FilesCalled == req.tool = "extract_key_files" /\ parseRepoUrl(req.repo_url) # Null

\* C10: for a repository URL, extractKeyFiles returns ok:false only when
\* the default-branch lookup fails, and then UPSTREAM_ERROR; when the
\* lookup succeeds it returns ok:true, whatever the file fetches meet.
C10_FilesFailOnlyOnLookup ==
  FilesCalled =>
    /\ reply.kind = "return"
    /\ ~reply.value.ok => ~LookupSucceeded /\ IsError(reply.value, "UPSTREAM_ERROR")
    /\ LookupSucceeded => IsSuccess(reply.value)
\* The lookup succeeded, the four default files met a 404, a network
\* error, no answer and a 500, and the result is ok:true.
C10_Witness ==
  /\ FilesCalled
  /\ LookupSucceeded
  /\ req.up.files = FileUpstreamMix
  /\ IsSuccess(reply.value)
  /\ \A k \in 1..4 : reply.value.data.files[k].content = Null

\* The paths the last extractKeyFiles call asked for: the default paths
\* when none are given.
RequestedPaths ==
  IF req.paths = Undefined \/ Len(req.paths.v) = 0 THEN DEFAULT_PATHS ELSE req.paths.v
FilesSucceeded == FilesCalled /\ reply.kind = "return" /\ IsSuccess(reply.value)

\* C11: in a successful extractKeyFiles result data.files has one entry per
\* requested path (the four default paths when none are given), in request
\* order; in every entry content is null exactly when error is set, and
\* size is null exactly when content is null.
C11_OneEntryPerPath ==
  FilesSucceeded =>
    LET files == reply.value.data.files IN
    /\ Len(files) = Len(RequestedPaths)
    /\ \A k \in 1..Len(files) :
         /\ files[k].path = RequestedPaths[k]
         /\ files[k].content = Null <=> FileError(files[k]) # Undefined
         /\ files[k].size = Null <=> files[k].content = Null
\* Two paths were asked for; the first file was fetched and the second met
\* a 500.
C11_Witness ==
  /\ FilesSucceeded
  /\ req.paths = Arr(<<"README.md", "docs/a.md">>)
  /\ req.up.files = <<FileFetched, Answers(Response(500, NoHeaders, Null))>>
  /\ reply.value.data.files[1].content = S("# Title")
  /\ reply.value.data.files[2].content = Null

\* What each file fetch of the last extractKeyFiles call met: a 404, or a
\* failure of another kind (another status that is not 2xx, a body that
\* cannot be read, a thrown error, no answer before the abort timer).
FileMet404(k) ==
  req.up.files[k].kind = "response" /\ req.up.files[k].response.status = 404
FileFailedOtherwise(k) ==
  \/ req.up.files[k].kind \in {"error", "silent"}
  \/ /\ req.up.files[k].kind = "response"
     /\ req.up.files[k].response.status # 404
     /\ \/ ~Is2xx(req.up.files[k].response.status)
        \/ req.up.files[k].response.body = Malformed
\* The paths at the positions that satisfy a test, in request order.
PathsWhere(Test(_)) ==
  LET at == SelectSeq([k \in 1..Len(RequestedPaths) |-> k], Test)
  IN  [i \in 1..Len(at) |-> RequestedPaths[at[i]]]
\* path: error of the entries at the positions that satisfy a test.
ErrorsWhere(Test(_)) ==
  LET at == SelectSeq([k \in 1..Len(RequestedPaths) |-> k], Test)
  IN  [i \in 1..Len(at) |->
         RequestedPaths[at[i]] \o ": " \o reply.value.data.files[at[i]].error]
NotFoundWarning == "Files not found: " \o JoinWith(PathsWhere(FileMet404), ", ")
OtherErrorsWarning ==
  "Errors fetching files: " \o JoinWith(ErrorsWhere(FileFailedOtherwise), "; ")

\* C12: in a successful extractKeyFiles result meta.warnings holds the
\* 'Files not found' warning exactly when some requested file met a 404,
\* listing exactly those paths, and the separate 'Errors fetching files'
\* warning exactly when some file failed otherwise, listing exactly those
\* paths with their errors; there is no other warning.
C12_FileWarnings ==
  FilesSucceeded =>
    reply.value.meta.warnings =
      (IF \E k \in 1..Len(RequestedPaths) : FileMet404(k)
       THEN <<NotFoundWarning>> ELSE <<>>)
      \o (IF \E k \in 1..Len(RequestedPaths) : FileFailedOtherwise(k)
          THEN <<OtherErrorsWarning>> ELSE <<>>)

\* The four default files met a 404, a network error, no answer and a 500:
\* one warning names the first, the other the three that failed otherwise.
C12_Witness ==
  /\ FilesSucceeded
  /\ req.paths = Undefined
  /\ req.up.files = FileUpstreamMix
  /\ reply.value.meta.warnings =
       <<"Files not found: README.md",
         "Errors fetching files: LICENSE: fetch failed; "
           \o "package.json: This operation was aborted; "
           \o "pyproject.toml: HTTP 500: Internal Server Error">>

\* The last call was releaseNotes with a repository URL.
ReleasesCalled == req.tool = "release_notes" /\ parseRepoUrl(req.repo_url) # Null
LimitOutOfRange == req.limit # Undefined /\ (req.limit.v < 1 \/ req.limit.v > 100)
\* The last call reached releaseNotes through a handler with a repository
\* URL and no limit.
ReleasesHandledNoLimit ==
  /\ HandlerCalled
  /\ CalledName = "release_notes"
  /\ CalledArgs = Obj([repo_url |-> Cs(FirstUrl)])

\* C13: releaseNotes with a repository URL and a limit outside [1,100] is
\* INVALID_INPUT and dispatches nothing; a limit inside [1,100] is accepted
\* (the page of that size is requested), and an omitted limit is treated
\* as 5, in a direct call and through the handlers' schema.
C13_LimitValidated ==
  /\ (ReleasesCalled /\ LimitOutOfRange) =>
       /\ reply.kind = "return"
       /\ IsError(reply.value, "INVALID_INPUT")
       /\ outbound = <<>>
  /\ (ReleasesCalled /\ ~LimitOutOfRange) =>
       /\ reply.kind = "return"
       /\ ~IsError(reply.value, "INVALID_INPUT")
       /\ Len(outbound) = 1
       /\ outbound[1].url =
            RepoApiUrl(parseRepoUrl(req.repo_url)) \o "/releases?per_page="
              \o NumStr(IF req.limit = Undefined THEN 5 ELSE req.limit.v)
  /\ ReleasesHandledNoLimit =>
       /\ Len(outbound) = 1
       /\ outbound[1].url = "https://api.github.com/repos/owner/repo/releases?per_page=5"
\* A limit of 101 was rejected after an earlier call had dispatched.
C13_Witness ==
  /\ ReleasesCalled
  /\ req.limit = N(101)
  /\ lastRequestTime > 0
  /\ IsError(reply.value, "INVALID_INPUT")
  /\ HasDetail(reply.value, "provided_limit", 101)
  /\ outbound = <<>>

\* The last call was releaseNotes, the upstream answered and the result is
\* ok:true; the Link header of that answer.
ReleasesSucceeded ==
  /\ ReleasesCalled
  /\ req.up.kind = "response"
  /\ reply.kind = "return"
  /\ IsSuccess(reply.value)
LinkOfReleases == HeadersGet(req.up.response, HLink)
\* The Link header has a link with this rel.
HasLink(link, rel) == link # Null /\ \E i \in 1..Len(link.v) : link.v[i] = rel
\* The page number of the link with this rel: the digits of the page
\* parameter (not per_page) of the URL that the first such rel closes; <<>>
\* when that URL has no page parameter.
PageOf(link, rel) ==
  LET ts == link.v
      close == CHOOSE i \in 1..Len(ts) :
                 ts[i] = rel /\ \A j \in 1..(i - 1) : ts[j] # rel
      open == CHOOSE j \in 1..close :
                ts[j] = "<url?" /\ \A k \in (j + 1)..close : ts[k] # "<url?"
      params == {k \in (open + 1)..close : ts[k] = "page=" /\ ts[k - 1] # "per_"}
  IN  IF params = {} THEN <<>>
      ELSE DigitPrefix(SubSeq(ts, (CHOOSE k \in params : TRUE) + 1, close))

\* C14: in a successful releaseNotes result meta.pagination.next_cursor is
\* the next page number, as a string, whenever the Link header of the
\* response has a rel="next" link, and null whenever the header is absent
\* or has no rel="next" link.
C14_NextCursor ==
  ReleasesSucceeded =>
    reply.value.meta.pagination.next_cursor =
      (IF HasLink(LinkOfReleases, RelNext) THEN Cs(PageOf(LinkOfReleases, RelNext))
       ELSE Null)

\* The upstream answered the last releaseNotes call 2xx with a JSON array
\* of release objects.
ReleaseListReturned ==
  /\ ReleasesCalled
  /\ ~LimitOutOfRange
  /\ req.up.kind = "response"
  /\ Is2xx(req.up.response.status)
  /\ req.up.response.body \notin {Null, Malformed}
  /\ req.up.response.body.t = "arr"
  /\ \A k \in 1..Len(req.up.response.body.v) : req.up.response.body.v[k] # Null
ReturnedReleases == req.up.response.body.v

\* C15: when the upstream returns 2xx with zero releases, releaseNotes is
\* ok:true with data.releases empty, total_count 0 and the 'No releases
\* found' warning; with at least one release, warnings is empty,
\* total_count is the number of releases and they keep the upstream order.
C15_ReleaseCount ==
  ReleaseListReturned =>
    /\ reply.kind = "return"
    /\ IsSuccess(reply.value)
    /\ Len(reply.value.data.releases) = Len(ReturnedReleases)
    /\ reply.value.data.total_count = Len(ReturnedReleases)
    /\ \A k \in 1..Len(ReturnedReleases) :
         reply.value.data.releases[k].tag_name = Get(ReturnedReleases[k], "tag_name")
    /\ reply.value.meta.warnings =
         (IF Len(ReturnedReleases) = 0
          THEN <<"No releases found for this repository">> ELSE <<>>)
\* No release came back: the result is ok:true with the warning.
C15_Witness ==
  /\ ReleaseListReturned
  /\ ReturnedReleases = <<>>
  /\ IsSuccess(reply.value)
  /\ reply.value.data.total_count = 0
  /\ reply.value.meta.warnings = <<"No releases found for this repository">>

\* The last call was repoOverview with a repository URL.
OverviewCalled == req.tool = "repo_overview" /\ parseRepoUrl(req.repo_url) # Null
\* What an outbound call met is a failure: no answer, a thrown error, a
\* status that is not 2xx, or a body that cannot be decoded or is null.
FailureMet(up) ==
  \/ up.kind # "response"
  \/ ~Is2xx(up.response.status)
  \/ up.response.body \in {Null, Malformed}
\* Two settled calls are error envelopes with the same code and the same
\* details keys.
SameFailure(a, b) ==
  /\ a.kind = "return" /\ b.kind = "return"
  /\ ~a.value.ok /\ ~b.value.ok
  /\ a.value.error.code = b.value.error.code
  /\ DOMAIN a.value.error.details = DOMAIN b.value.error.details

\* C16: releaseNotes classifies failures as repoOverview does: for every
\* status, every combination of the rate-limit headers and every thrown
\* error, the two tools called on the same repository URL return error
\* envelopes with the same code and the same details keys; when the
\* upstream answers 2xx with the resource each asks for, both succeed.
C16_SameClassification ==
  /\ (OverviewCalled /\ FailureMet(req.up)) =>
       SameFailure(reply, releaseNotes(Start, req.repo_url, Undefined, req.up).settled)
  /\ (ReleasesCalled /\ ~LimitOutOfRange /\ FailureMet(req.up)) =>
       SameFailure(reply, repoOverview(Start, req.repo_url, req.up).settled)
  /\ (OverviewCalled /\ req.up = RepoFound) => IsSuccess(reply.value)
  /\ ReleaseListReturned => IsSuccess(reply.value)
\* releaseNotes met a 403 with the quota used up: RATE_LIMITED, as
\* repoOverview on the same answer.
C16_Witness ==
  /\ ReleasesCalled
  /\ req.up = Answers(Response(403, Headers(Cs(<<"0">>), Cs(<<"1", "7">>), Null), Null))
  /\ IsError(reply.value, "RATE_LIMITED")
  /\ IsError(repoOverview(Start, req.repo_url, req.up).settled.value, "RATE_LIMITED")

\* The last call was activitySnapshot with a repository URL, and it
\* returned ok:true.
ActivityCalled == req.tool = "activity_snapshot" /\ parseRepoUrl(req.repo_url) # Null
ActivitySucceeded == ActivityCalled /\ reply.kind = "return" /\ IsSuccess(reply.value)
\* The count field that the k-th fetch of the Promise.all feeds: the pulls
\* are the third, the contributors the fourth.
CountField(k) ==
  IF k = 3 THEN reply.value.data.open_prs_count ELSE reply.value.data.contributors_count
\* The k-th fetch was answered 2xx; the Link header of that answer.
ListAnswered(k) == req.up[k].kind = "response" /\ Is2xx(req.up[k].response.status)
LinkOfList(k) == HeadersGet(req.up[k].response, HLink)

\* C17: in activitySnapshot, when the pull-request (contributor) response
\* carries a Link header with a rel="last" marker, open_prs_count
\* (contributors_count) is the page number of that marker and not the
\* length of the returned array; when the response has no Link header, the
\* count is the length of the returned array.
C17_CountFromLastPage ==
  ActivitySucceeded =>
    \A k \in {3, 4} :
      /\ (ListAnswered(k) /\ HasLink(LinkOfList(k), RelLast)) =>
           CountField(k) = N(DecimalValue(PageOf(LinkOfList(k), RelLast)))
      /\ (ListAnswered(k) /\ LinkOfList(k) = Null
            /\ req.up[k].response.body \notin {Null, Malformed}
            /\ req.up[k].response.body.t = "arr") =>
           CountField(k) = N(Len(req.up[k].response.body.v))

\* The repository-metadata fetch of the last activitySnapshot call
\* succeeded: the upstream answered 2xx with a body that decodes to a
\* value other than null.
RepoFetchSucceeded ==
  /\ req.up[1].kind = "response"
  /\ Is2xx(req.up[1].response.status)
  /\ req.up[1].response.body \notin {Null, Malformed}
\* An auxiliary fetch yields nothing: no answer, a thrown error, a status
\* that is not 2xx, or a body that cannot be decoded.
ListUnavailable(k) ==
  \/ req.up[k].kind # "response"
  \/ ~Is2xx(req.up[k].response.status)
  \/ req.up[k].response.body \in {Null, Malformed}
\* The latest commit is unavailable as well when the commit list is empty.
CommitUnavailable ==
  \/ ListUnavailable(2)
  \/ req.up[2].response.body.t # "arr"
  \/ req.up[2].response.body.v = <<>>
  \/ req.up[2].response.body.v[1] = Null
\* A count is obtained from a rel="last" link or from the length of the
\* returned array; without either it is unavailable.
CountUnavailable(k) ==
  ~(/\ ListAnswered(k)
    /\ \/ HasLink(LinkOfList(k), RelLast)
       \/ /\ req.up[k].response.body \notin {Null, Malformed}
          /\ req.up[k].response.body.t = "arr")
ExpectedActivityWarnings ==
  (IF CountUnavailable(3) THEN <<"Could not fetch open PRs count">> ELSE <<>>)
  \o (IF CountUnavailable(4) THEN <<"Could not fetch contributors count">> ELSE <<>>)
  \o (IF CommitUnavailable THEN <<"Could not fetch latest commit information">>
      ELSE <<>>)

\* C18: in activitySnapshot, when the repository-metadata fetch succeeds
\* the result is ok:true whatever the commit, PR-count and
\* contributor-count fetches meet; meta.warnings holds exactly one warning
\* for each of the three that is unavailable and none for one that was
\* obtained; an unavailable commit date and message are null, an
\* unavailable count is 0.
C18_AuxiliaryFailSoft ==
  (ActivityCalled /\ RepoFetchSucceeded) =>
    /\ reply.kind = "return"
    /\ IsSuccess(reply.value)
    /\ reply.value.meta.warnings = ExpectedActivityWarnings
    /\ CommitUnavailable =>
         /\ reply.value.data.last_commit_date = Null
         /\ reply.value.data.last_commit_message = Null
    /\ CountUnavailable(3) => reply.value.data.open_prs_count = N(0)
    /\ CountUnavailable(4) => reply.value.data.contributors_count = N(0)

\* C19: for a repository URL, activitySnapshot returns ok:false exactly
\* when the repository-metadata fetch fails (a status that is not 2xx, a
\* thrown error, no answer, a body that does not decode), and then with
\* UPSTREAM_ERROR, whatever the three auxiliary fetches meet.
C19_FailsOnlyOnRepoFetch ==
  ActivityCalled =>
    /\ reply.kind = "return"
    /\ ~reply.value.ok <=> ~RepoFetchSucceeded
    /\ ~reply.value.ok => IsError(reply.value, "UPSTREAM_ERROR")

\* The string is an absolute http(s) URL with a host; its host.
ParsesAsUrl(u) == Len(u) >= 3 /\ u[1] \in {"https:", "http:"} /\ u[2] = "//"
HostOf(u) == u[3]
\* The URL of the last tool call is no URL, or a URL of another host than
\* github.com and www.github.com.
NotOnGitHub(u) == ~ParsesAsUrl(u) \/ HostOf(u) \notin {"github.com", "www.github.com"}

\* C20: parseRepoUrl returns null for every string that does not parse as
\* a URL and for every URL whose host is not exactly github.com or
\* www.github.com: another subdomain of github.com, a host that contains or
\* ends in github.com, gitlab.com.  The tool that called it rejects the URL.
C20_OtherHostsRejected ==
  (ToolCalled /\ NotOnGitHub(req.repo_url)) =>
    /\ parseRepoUrl(req.repo_url) = Null
    /\ reply.kind = "return"
    /\ IsError(reply.value, "INVALID_INPUT")
\* A tool was called with a URL of api.github.com and rejected it.
C20_Witness ==
  /\ ToolCalled
  /\ req.repo_url = <<"https:", "//", "api.github.com", "/", "a", "/", "b">>
  /\ parseRepoUrl(req.repo_url) = Null
  /\ IsError(reply.value, "INVALID_INPUT")

\* The tokens of the path of a URL on an accepted host: what follows the
\* host, up to the query or the fragment.
RECURSIVE UpToQuery(_)
UpToQuery(ts) ==
  IF ts = <<>> \/ Head(ts) = "?" \/ Head(ts) = "#" THEN <<>>
  ELSE <<Head(ts)>> \o UpToQuery(Tail(ts))
UrlPath(u) == UpToQuery(SubSeq(u, 4, Len(u)))
\* The non-empty segments of a path: its maximal runs of tokens between
\* slashes, each joined into a string of tokens.
RECURSIVE Segments(_, _)
Segments(ts, run) ==
  IF ts = <<>> THEN (IF run = <<>> THEN <<>> ELSE <<run>>)
  ELSE IF Head(ts) = "/"
  THEN (IF run = <<>> THEN <<>> ELSE <<run>>) \o Segments(Tail(ts), <<>>)
  ELSE Segments(Tail(ts), Append(run, Head(ts)))
SegmentsOf(u) == Segments(UrlPath(u), <<>>)
\* A segment with one trailing .git removed.
WithoutGit(seg) ==
  IF Len(seg) > 0 /\ seg[Len(seg)] = ".git" THEN SubSeq(seg, 1, Len(seg) - 1) ELSE seg
\* The reference the URL names: owner the first segment, repo the second
\* without its suffix.
ReferenceOf(u) ==
  Obj([owner |-> Join(SegmentsOf(u)[1]), repo |-> Join(WithoutGit(SegmentsOf(u)[2]))])
OnGitHub(u) == ParsesAsUrl(u) /\ HostOf(u) \in {"github.com", "www.github.com"}
PlainUrl == <<"https:", "//", "github.com", "/", "a", "/", "b">>

\* C21: for a URL on an accepted host, parseRepoUrl returns null when the
\* path has fewer than two non-empty segments, and the calling tool rejects
\* the URL; otherwise owner is the first segment verbatim, repo the second
\* segment with one trailing .git removed, further segments are ignored,
\* and a tool that succeeds by fetching the repository resource first has
\* fetched it for that owner and repo.  The URL
\* with a .git suffix and the URL with a /tree/main suffix parse to the
\* reference of the plain URL.
C21_OwnerAndRepo ==
  /\ (ToolCalled /\ OnGitHub(req.repo_url)) =>
       IF Len(SegmentsOf(req.repo_url)) < 2
       THEN /\ parseRepoUrl(req.repo_url) = Null
            /\ reply.kind = "return"
            /\ IsError(reply.value, "INVALID_INPUT")
       ELSE /\ parseRepoUrl(req.repo_url) = ReferenceOf(req.repo_url)
            /\ (req.tool # "release_notes" /\ reply.value.ok)
                 => /\ Len(outbound) >= 1
                    /\ outbound[1].url = RepoApiUrl(ReferenceOf(req.repo_url))
  /\ parseRepoUrl(PlainUrl \o <<".git">>) = parseRepoUrl(PlainUrl)
  /\ parseRepoUrl(PlainUrl \o <<"/", "tree", "/", "main">>) = parseRepoUrl(PlainUrl)
\* A tool was called with a URL whose second segment ends in .git twice
\* and fetched the repository named by the segment less one suffix.
C21_Witness ==
  /\ ToolCalled
  /\ req.repo_url = PlainUrl \o <<".git", ".git">>
  /\ parseRepoUrl(req.repo_url) = Obj([owner |-> "a", repo |-> "b.git"])
  /\ Len(outbound) >= 1
  /\ outbound[1].url = "https://api.github.com/repos/a/b.git"

\* The options a caller gives createSuccessResponse: each of source,
\* warnings and next_cursor given or not, next_cursor a page, null or
\* undefined.
SomeWarnings == {<<>>, <<"No releases found for this repository">>}
SomeCursors == {Cs(<<"2">>), Null, Undefined}
SuccessOptions ==
  {NoFields, [source |-> "s"]}
  \cup {[warnings |-> w] : w \in SomeWarnings}
  \cup {[next_cursor |-> c] : c \in SomeCursors}
  \cup {[source |-> "s", warnings |-> w, next_cursor |-> c] :
          w \in SomeWarnings, c \in SomeCursors}
SomeData == {[name |-> "test-repo"], [releases |-> <<>>, total_count |-> 0]}
SomeDetails == {Undefined, NoDetails, [status |-> 404]}
\* The envelope read back from its serialised form.
ReadBack(e) == JsonStringify(e).json
\* The last call was a direct tool call and resolved to an envelope.
ToolResolved == ToolCalled /\ reply.kind = "return"

ProducedCodes == ErrorCode \ {"PARSE_ERROR"}
\* The fetch of the repository resource was answered 2xx with a body that
\* is no JSON.
MalformedRepoBody ==
  /\ req.tool = "repo_overview"
  /\ req.up.kind = "response"
  /\ Is2xx(req.up.response.status)
  /\ req.up.response.body = Malformed

\* C23: every error envelope that one of the four tools resolves to
\* carries a code of INVALID_INPUT, UPSTREAM_ERROR, RATE_LIMITED, TIMEOUT,
\* PARSE_ERROR, INTERNAL_ERROR, and none carries PARSE_ERROR, not even
\* when the upstream body cannot be decoded.
C23_ClosedCodeSet ==
  (ToolResolved /\ ~reply.value.ok) =>
    /\ \E code \in ErrorCode : IsError(reply.value, code)
    /\ reply.value.error.code \in ProducedCodes
\* repoOverview was answered 200 with a body that is no JSON and resolved
\* to INTERNAL_ERROR.
C23_Witness ==
  /\ ToolResolved
  /\ MalformedRepoBody
  /\ IsError(reply.value, "INTERNAL_ERROR")
  /\ HasDetail(reply.value, "error_name", "SyntaxError")

\* Call i dispatches its outbound call in this step.
Dispatches(i) == task[i].pc \in {"idle", "sleeping"} /\ task'[i].pc = "inflight"
\* The positions a call goes through, in their order.
PcRank(pc) ==
  CASE pc = "idle" -> 0 [] pc = "sleeping" -> 1 [] pc = "inflight" -> 2 [] pc = "done" -> 3
C24_Step ==
  /\ \A i \in Calls :
       \* a call dispatches once: it does not go back to an earlier position
       /\ PcRank(task'[i].pc) >= PcRank(task[i].pc)
       \* the dispatch writes the time of the dispatch, which is not before
       \* the end of the throttle wait
       /\ Dispatches(i) =>
            /\ lastRequestTime' = now
            /\ task'[i].at = now
            /\ task[i].pc = "sleeping" => now >= task[i].wakeAt
            /\ task[i].pc = "idle" => ThrottleDelay(now, lastRequestTime) = 0
       \* the start of the wait, the response, the failure and the abort
       \* leave it alone
       /\ (task'[i] # task[i] /\ ~Dispatches(i)) => lastRequestTime' = lastRequestTime
  /\ lastRequestTime' # lastRequestTime => \E i \in Calls : Dispatches(i)

\* C24: every rateLimitedFetch call writes lastRequestTime exactly once,
\* after its throttle wait if it has one and in the step that dispatches
\* its outbound call, with the time of the dispatch; the completion, the
\* failure and the timeout of the call never modify it.
C24_WrittenAtDispatch == [][C24_Step]_vars
\* A call has timed out while a call that was throttled is in flight:
\* lastRequestTime is the dispatch time of the throttled call.
C24_Witness ==
  \E i, j \in Calls :
    /\ task[i].pc = "done"
    /\ IsError(task[i].result.value, "TIMEOUT")
    /\ task[j].pc = "inflight"
    /\ task[j].at > LastStart
    /\ lastRequestTime = task[j].at
    /\ now > lastRequestTime

\* A call that starts when the process does.
FreshStart == [now |-> StartTime, last |-> 0, out |-> <<>>]
\* The entry of the k-th path in a call that fetches this path alone, the
\* upstream doing to it what it did in the last call.
FileAlone(k) ==
  extractKeyFiles(FreshStart, req.repo_url, Arr(<<RequestedPaths[k]>>),
                  [branch |-> req.up.branch, files |-> <<req.up.files[k]>>]
                 ).settled.value.data.files[1]
\* The data of a call of activitySnapshot in which the k-th fetch meets
\* what it met in the last call and the other three are answered well.
ActivityAlone(k) ==
  activitySnapshot(FreshStart, req.repo_url,
                   [j \in 1..4 |-> IF j = k THEN req.up[k] ELSE AllAnswer.four[j]]
                  ).settled.value.data
\* The time at which the fetch dispatched as the k-th of the last call came
\* to its end when it met up: its dispatch, or its own abort timer.
EndOf(k, up) ==
  IF up.kind = "silent" THEN outbound[k].at + RequestTimeoutMs ELSE outbound[k].at
\* One of the parallel fetches of the last call failed or timed out.
SomeFileFailed == \E k \in 1..Len(req.up.files) : req.up.files[k].kind # "response"
SomeAuxFailed == \E k \in 2..4 : req.up[k].kind # "response"

ResolvedBranch ==
  IF "default_branch" \in DOMAIN req.up.branch.response.body.v
  THEN req.up.branch.response.body.v.default_branch.v
  ELSE "main"
\* The URL of a raw file of the repository of the last call.
RawUrlOf(branch, path) ==
  "https://raw.githubusercontent.com/" \o parseRepoUrl(req.repo_url).v.owner \o "/"
    \o parseRepoUrl(req.repo_url).v.repo \o "/" \o branch \o "/" \o path

\* C26: a call of extractKeyFiles dispatches the default-branch lookup
\* first; when the lookup fails it dispatches nothing else, and when it
\* succeeds it dispatches after it exactly one raw-file fetch per requested
\* path, in the order of the paths, each for the resolved branch.
C26_LookupBeforeFiles ==
  FilesCalled =>
    /\ Len(outbound) >= 1
    /\ outbound[1].url = RepoApiUrl(parseRepoUrl(req.repo_url))
    /\ IF LookupSucceeded
       THEN /\ Len(outbound) = 1 + Len(RequestedPaths)
            /\ \A k \in 1..Len(RequestedPaths) :
                 /\ outbound[1 + k].url = RawUrlOf(ResolvedBranch, RequestedPaths[k])
                 /\ outbound[1 + k].at >= outbound[1].at
       ELSE Len(outbound) = 1
\* The lookup named the branch dev and two paths were requested: a fetch
\* for each was dispatched after the lookup, for dev.
C26_Witness ==
  /\ FilesCalled
  /\ LookupSucceeded
  /\ req.repo_url = FirstUrl
  /\ req.paths = Arr(<<"README.md", "docs/a.md">>)
  /\ Len(outbound) = 3
  /\ outbound[2].url = "https://raw.githubusercontent.com/owner/repo/dev/README.md"
  /\ outbound[3].url = "https://raw.githubusercontent.com/owner/repo/dev/docs/a.md"
  /\ outbound[2].at >= outbound[1].at + RequestDelayMs

\* Request r arrives on /mcp in this step, with this method.
Arrives(r, method) ==
  http[r].pc = "idle" /\ http'[r].pc # "idle" /\ http'[r].path = "/mcp"
    /\ http'[r].method = method
\* Request r is a POST whose server has connected in this step.
PostConnects(r) == http[r].pc = "connecting" /\ http'[r].pc = "handling"
\* Request r is a DELETE that its transport has handled in this step.
DeleteHandled(r) ==
  http[r].method = "DELETE" /\ http[r].pc = "handling" /\ http'[r].pc = "done"
\* The id was not generated before: it is none of the first minted ids,
\* which the ids of the sessions and of the requests under way are among.
FreshId(id) ==
  /\ id > minted
  /\ \A other \in sessions : other <= minted
  /\ \A r \in Requests : http[r].session <= minted
C27_Step ==
  /\ \A r \in Requests :
       \* a POST without the id of a session gets a fresh id, and exactly
       \* that id is added when its server has connected
       /\ Arrives(r, "POST") =>
            IF http'[r].header # Undefined /\ http'[r].header.v \in sessions
            THEN /\ http'[r].session = http'[r].header.v
                 /\ http'[r].pc = "handling"
                 /\ sessions' = sessions
            ELSE /\ http'[r].pc = "connecting"
                 /\ FreshId(http'[r].session)
                 /\ sessions' = sessions
       /\ PostConnects(r) =>
            /\ http[r].session \notin sessions
            /\ sessions' = sessions \cup {http[r].session}
       \* a DELETE with the id of a session removes it
       /\ DeleteHandled(r) => sessions' = sessions \ {http[r].header.v}
       \* GET and DELETE without the id of a session: 400, 404, no change
       /\ \A method \in {"GET", "DELETE"} :
            Arrives(r, method) =>
              /\ sessions' = sessions
              /\ http'[r].header = Undefined =>
                   http'[r].pc = "done" /\ http'[r].answer = "400"
              /\ (http'[r].header # Undefined /\ http'[r].header.v \notin sessions) =>
                   http'[r].pc = "done" /\ http'[r].answer = "404"
              /\ (http'[r].header # Undefined /\ http'[r].header.v \in sessions) =>
                   http'[r].pc = "handling" /\ http'[r].session = http'[r].header.v
  \* the map changes in no other way
  /\ sessions' # sessions =>
       \/ \E r \in Requests : PostConnects(r) /\ sessions' = sessions \cup {http[r].session}
       \/ \E r \in Requests : DeleteHandled(r) /\ sessions' = sessions \ {http[r].header.v}
       \/ \E id \in sessions : sessions' = sessions \ {id} /\ http' = http

StartedAfterLastDispatch(i) ==
  \/ task[i].pc = "idle"
  \/ task[i].pc = "sleeping" /\ lastRequestTime = task[i].wakeAt - RequestDelayMs
C28_Step ==
  \A i \in Calls :
    (Dispatches(i) /\ StartedAfterLastDispatch(i))
      => task'[i].at - lastRequestTime >= RequestDelayMs

\* C28: when a rateLimitedFetch call starts after the call before it has
\* dispatched, it dispatches at least requestDelayMs after that dispatch:
\* the dispatch times of calls that do not overlap are at least
\* requestDelayMs apart, each from the one before.  lastRequestTime is the
\* time of the dispatch before.
C28_SequentialCallsSpaced == [][C28_Step]_vars
\* The second call started while the first was in flight, waited, and
\* dispatched requestDelayMs after the first; no third call has started.
C28_Witness ==
  /\ task[1].pc = "inflight"
  /\ task[2].pc = "inflight"
  /\ task[3].pc = "idle"
  /\ task[2].at = task[1].at + RequestDelayMs
  /\ lastRequestTime = task[2].at

\* C29: extractKeyFiles and activitySnapshot never resolve to RATE_LIMITED,
\* TIMEOUT or INTERNAL_ERROR, whatever the upstream does (403 with the
\* quota used up, no answer before the timeout, a network error, a body
\* that cannot be decoded): the error envelopes they resolve to carry
\* INVALID_INPUT or UPSTREAM_ERROR.
C29_OnlyInputOrUpstreamErrors ==
  (ToolCalled /\ req.tool \in {"extract_key_files", "activity_snapshot"}) =>
    /\ reply.kind = "return"
    /\ ~reply.value.ok =>
         \/ IsError(reply.value, "INVALID_INPUT")
         \/ IsError(reply.value, "UPSTREAM_ERROR")

\* C30: whenever parseRepoUrl returns a reference for the URL a tool is
\* called with, owner and repo are both non-empty strings, also when the
\* second path segment is exactly .git.
C30_OwnerAndRepoNonEmpty ==
  (ToolCalled /\ parseRepoUrl(req.repo_url) # Null) =>
    /\ parseRepoUrl(req.repo_url).v.owner # ""
    /\ parseRepoUrl(req.repo_url).v.repo # ""

====
